---------------------------- MODULE Spec2Model ----------------------------
(***************************************************************************)
(* Model of the chunking-and-pipeline engine of ollama-batch-processor     *)
(* (src/Translator.py: TextChunker, OllamaProcessor) as driven by the      *)
(* presentation layer (src/main.py).                                       *)
(*                                                                         *)
(* Texts are Python str values, modelled as sequences of one-character     *)
(* strings.  Python indices are 0-based: text[i] in the source is          *)
(* At(text, i) here.                                                       *)
(***************************************************************************)
EXTENDS Integers, Sequences, FiniteSets, TLC

(***************************************************************************)
(* Python str primitives                                                   *)
(***************************************************************************)
Min(a, b) == IF a <= b THEN a ELSE b

Max(a, b) == IF a >= b THEN a ELSE b

At(s, i) == s[i + 1]

\* s[a:b] for 0 <= a, 0 <= b
Slice(s, a, b) ==
    IF a >= Min(b, Len(s)) THEN << >> ELSE SubSeq(s, a + 1, Min(b, Len(s)))

\* s[:n] for n >= 0
Prefix(s, n) == Slice(s, 0, n)

\* s[-n:] for n >= 0: the last n characters, the whole of s when it is shorter,
\* and the whole of s when n = 0, since s[-0:] is s[0:]
Suffix(s, n) == IF n = 0 THEN s ELSE Slice(s, Max(Len(s) - n, 0), Len(s))

\* str.isspace for one character; regex \s
IsSpace(c) == c \in {" ", "\n", "\t"}

\* regex [.!?]
IsTerminal(c) == c \in {".", "!", "?"}

\* regex ["»"]
IsQuote(c) == c \in {"\"", "»"}

SetMin(S) == CHOOSE m \in S : \A x \in S : m <= x

SetMax(S) == CHOOSE m \in S : \A x \in S : x <= m

\* index of the first non-whitespace character at or after i (Len(s) if none)
SkipSpace(s, i) ==
    IF i >= Len(s) THEN i
    ELSE SetMin({k \in i..(Len(s) - 1) : ~IsSpace(At(s, k))} \cup {Len(s)})

\* one past the index of the last non-whitespace character before j (0 if none)
SkipSpaceBack(s, j) ==
    SetMax({k \in 1..j : ~IsSpace(At(s, k - 1))} \cup {0})

\* str.strip()
Strip(s) ==
    LET a == SkipSpace(s, 0)
    IN  IF a >= Len(s) THEN << >> ELSE Slice(s, a, SkipSpaceBack(s, Len(s)))

\* str.startswith
StartsWith(s, p) == Len(p) <= Len(s) /\ SubSeq(s, 1, Len(p)) = p

\* sep.join(parts)
RECURSIVE Join(_, _)
Join(parts, sep) ==
    IF parts = << >> THEN << >>
    ELSE IF Len(parts) = 1 THEN parts[1]
    ELSE parts[1] \o sep \o Join(Tail(parts), sep)

\* str.rfind(c, start, end) for a single character c and end >= 0; a negative
\* start counts from the end of s, as Python's slice adjustment does
\* the highest index in [lo, k) that holds c, -1 if none
RFindDown(s, c, lo, k) ==
    SetMax({j \in lo..(k - 1) : At(s, j) = c} \cup {-1})

RFind(s, c, start, end) ==
    LET lo == IF start < 0 THEN Max(start + Len(s), 0) ELSE start
    IN  RFindDown(s, c, lo, Min(end, Len(s)))

\* max(list) of a non-empty sequence of integers
SeqMax(q) == SetMax({q[i] : i \in 1..Len(q)})

\* [b for b in q if b <= bound]
SelectLE(q, bound) == SelectSeq(q, LAMBDA b : b <= bound)

(***************************************************************************)
(* TextChunker.chunk_text                                                  *)
(***************************************************************************)
\* start of the search window: chunk_end - 200
LookBehind == 200

\* end of the search window: chunk_end + 100
LookAhead == 100

\* the space search reaches back to chunk_end - 100
SpaceWindow == 100

\* max_chars == -1: the whole text is one chunk
WholeFile == -1

\* [m.end() for m in re.finditer(r'[.!?]\s+', s)], scanning from index i
RECURSIVE SentenceEnds(_, _)
SentenceEnds(s, i) ==
    LET starts == {k \in i..(Len(s) - 2) :
                      IsTerminal(At(s, k)) /\ IsSpace(At(s, k + 1))}
    IN  IF starts = {} THEN << >>
        ELSE LET e == SkipSpace(s, SetMin(starts) + 1)
             IN  <<e>> \o SentenceEnds(s, e)

\* [m.end() for m in re.finditer(r'[.!?]["»"]\s+', s)], scanning from index i
RECURSIVE QuotedSentenceEnds(_, _)
QuotedSentenceEnds(s, i) ==
    LET starts == {k \in i..(Len(s) - 3) :
                      /\ IsTerminal(At(s, k))
                      /\ IsQuote(At(s, k + 1))
                      /\ IsSpace(At(s, k + 2))}
    IN  IF starts = {} THEN << >>
        ELSE LET e == SkipSpace(s, SetMin(starts) + 2)
             IN  <<e>> \o QuotedSentenceEnds(s, e)

\* [m.end() for m in re.finditer(r'\n\s*\n', s)], scanning from index i: a match
\* starts at a newline and, \s* being greedy, ends after the last newline of the
\* whitespace run that follows it
RECURSIVE ParagraphEnds(_, _)
ParagraphEnds(s, i) ==
    LET starts == {k \in i..(Len(s) - 2) :
                      /\ At(s, k) = "\n"
                      /\ RFindDown(s, "\n", k + 1, SkipSpace(s, k + 1)) >= 0}
    IN  IF starts = {} THEN << >>
        ELSE LET k == SetMin(starts)
                 e == RFindDown(s, "\n", k + 1, SkipSpace(s, k + 1)) + 1
             IN  <<e>> \o ParagraphEnds(s, e)

\* the candidates of one pattern kept by the loops of lines 40-43, 45-48, 57-60
Breaks(ends, search_start, position, chunk_end) ==
    LET actual == [k \in 1..Len(ends) |-> search_start + ends[k]]
    IN  SelectSeq(actual, LAMBDA b : position < b /\ b <= chunk_end + LookAhead)

\* max([b for b in breaks if b <= chunk_end], default=breaks[0])
BestBreak(breaks, chunk_end) ==
    LET fit == SelectLE(breaks, chunk_end)
    IN  IF fit = << >> THEN breaks[1] ELSE SeqMax(fit)

\* a variant of ChunkEnd that cuts after the last space of the window even
\* when that space lies before position
ChunkEndAtAnySpace(text, max_chars, position) ==
    LET text_length == Len(text)
        chunk_end == Min(position + max_chars, text_length)
    IN  IF chunk_end < text_length
        THEN LET search_start == Max(position, chunk_end - LookBehind)
                 search_text == Slice(text, search_start, chunk_end + LookAhead)
                 sentence_breaks ==
                     Breaks(SentenceEnds(search_text, 0),
                            search_start, position, chunk_end)
                     \o Breaks(QuotedSentenceEnds(search_text, 0),
                               search_start, position, chunk_end)
                 para_breaks ==
                     Breaks(ParagraphEnds(search_text, 0),
                            search_start, position, chunk_end)
                 space_pos == RFind(text, " ", chunk_end - SpaceWindow, chunk_end)
             IN  IF sentence_breaks # << >>
                 THEN BestBreak(sentence_breaks, chunk_end)
                 ELSE IF para_breaks # << >>
                 THEN BestBreak(para_breaks, chunk_end)
                 ELSE IF space_pos >= 0
                 THEN space_pos + 1
                 ELSE chunk_end
        ELSE chunk_end

\* a variant of ChunkEnd that looks for a paragraph break before it looks
\* for a sentence end
ChunkEndParagraphFirst(text, max_chars, position) ==
    LET text_length == Len(text)
        chunk_end == Min(position + max_chars, text_length)
    IN  IF chunk_end < text_length
        THEN LET search_start == Max(position, chunk_end - LookBehind)
                 search_text == Slice(text, search_start, chunk_end + LookAhead)
                 sentence_breaks ==
                     Breaks(SentenceEnds(search_text, 0),
                            search_start, position, chunk_end)
                     \o Breaks(QuotedSentenceEnds(search_text, 0),
                               search_start, position, chunk_end)
                 para_breaks ==
                     Breaks(ParagraphEnds(search_text, 0),
                            search_start, position, chunk_end)
                 space_pos == RFind(text, " ", chunk_end - SpaceWindow, chunk_end)
             IN  IF para_breaks # << >>
                 THEN BestBreak(para_breaks, chunk_end)
                 ELSE IF sentence_breaks # << >>
                 THEN BestBreak(sentence_breaks, chunk_end)
                 ELSE IF space_pos > position
                 THEN space_pos + 1
                 ELSE chunk_end
        ELSE chunk_end

\* a variant of ChunkEnd whose search text reaches to the end of the text
ChunkEndFarAhead(text, max_chars, position) ==
    LET text_length == Len(text)
        chunk_end == Min(position + max_chars, text_length)
    IN  IF chunk_end < text_length
        THEN LET search_start == Max(position, chunk_end - LookBehind)
                 search_text == Slice(text, search_start, text_length)
                 sentence_breaks ==
                     Breaks(SentenceEnds(search_text, 0),
                            search_start, position, text_length)
                     \o Breaks(QuotedSentenceEnds(search_text, 0),
                               search_start, position, text_length)
                 para_breaks ==
                     Breaks(ParagraphEnds(search_text, 0),
                            search_start, position, text_length)
                 space_pos == RFind(text, " ", chunk_end - SpaceWindow, chunk_end)
             IN  IF sentence_breaks # << >>
                 THEN BestBreak(sentence_breaks, chunk_end)
                 ELSE IF para_breaks # << >>
                 THEN BestBreak(para_breaks, chunk_end)
                 ELSE IF space_pos > position
                 THEN space_pos + 1
                 ELSE chunk_end
        ELSE chunk_end

\* the body of the while loop up to line 70: where the chunk starting at
\* position is cut
ChunkEnd(text, max_chars, position) ==
    LET text_length == Len(text)
        chunk_end == Min(position + max_chars, text_length)
    IN  IF chunk_end < text_length
        THEN LET search_start == Max(position, chunk_end - LookBehind)
                 search_text == Slice(text, search_start, chunk_end + LookAhead)
                 sentence_breaks ==
                     Breaks(SentenceEnds(search_text, 0),
                            search_start, position, chunk_end)
                     \o Breaks(QuotedSentenceEnds(search_text, 0),
                               search_start, position, chunk_end)
                 para_breaks ==
                     Breaks(ParagraphEnds(search_text, 0),
                            search_start, position, chunk_end)
                 space_pos == RFind(text, " ", chunk_end - SpaceWindow, chunk_end)
             IN  IF sentence_breaks # << >>
                 THEN BestBreak(sentence_breaks, chunk_end)
                 ELSE IF para_breaks # << >>
                 THEN BestBreak(para_breaks, chunk_end)
                 ELSE IF space_pos > position
                 THEN space_pos + 1
                 ELSE chunk_end
        ELSE chunk_end

\* previous_end after a chunk (lines 76-80)
PreviousEnd(piece, overlap) ==
    LET context_size == Min(overlap, Len(piece))
    IN  IF Len(piece) > context_size THEN Suffix(piece, context_size) ELSE piece

\* the while loop of lines 31-82; it ends for max_chars >= 1, where every cut
\* lies beyond position
RECURSIVE ChunkLoop(_, _, _, _, _)
ChunkLoop(text, max_chars, overlap, position, previous_end) ==
    IF position < Len(text)
    THEN LET chunk_end == ChunkEnd(text, max_chars, position)
             piece == Strip(Slice(text, position, chunk_end))
         IN  << [chunk |-> piece, context |-> previous_end,
                 is_first |-> (position = 0)] >>
             \o ChunkLoop(text, max_chars, overlap, chunk_end,
                          PreviousEnd(piece, overlap))
    ELSE << >>

\* chunk_text(text, max_chars, overlap): the list of (chunk, context, is_first)
chunk_text(text, max_chars, overlap) ==
    IF max_chars = WholeFile \/ Len(text) <= max_chars
    THEN << [chunk |-> text, context |-> << >>, is_first |-> TRUE] >>
    ELSE ChunkLoop(text, max_chars, overlap, 0, << >>)

(***************************************************************************)
(* OllamaProcessor.deduplicate_paragraphs                                  *)
(***************************************************************************)
UpperCase ==
    <<"A", "B", "C", "D", "E", "F", "G", "H", "I", "J", "K", "L", "M",
      "N", "O", "P", "Q", "R", "S", "T", "U", "V", "W", "X", "Y", "Z">>

LowerCase ==
    <<"a", "b", "c", "d", "e", "f", "g", "h", "i", "j", "k", "l", "m",
      "n", "o", "p", "q", "r", "s", "t", "u", "v", "w", "x", "y", "z">>

\* str.lower() for one character
LowerChar(c) ==
    IF \E i \in 1..Len(UpperCase) : UpperCase[i] = c
    THEN LowerCase[CHOOSE i \in 1..Len(UpperCase) : UpperCase[i] = c]
    ELSE c

\* str.lower()
Lower(s) == [i \in 1..Len(s) |-> LowerChar(s[i])]

\* the separator of paragraphs, and of the parts a stage joins
BlankLine == <<"\n", "\n">>

\* index of the first "\n\n" at or after i, -1 if none
FindBlankLine(s, i) ==
    LET found == {k \in i..(Len(s) - 2) : At(s, k) = "\n" /\ At(s, k + 1) = "\n"}
    IN  IF found = {} THEN -1 ELSE SetMin(found)

\* text.split('\n\n')
RECURSIVE SplitParagraphs(_)
SplitParagraphs(s) ==
    LET i == FindBlankLine(s, 0)
    IN  IF i < 0 THEN <<s>>
        ELSE <<Slice(s, 0, i)>> \o SplitParagraphs(Slice(s, i + 2, Len(s)))

\* index of the first whitespace character at or after i (Len(s) if none)
SkipWord(s, i) ==
    IF i >= Len(s) THEN i
    ELSE SetMin({k \in i..(Len(s) - 1) : IsSpace(At(s, k))} \cup {Len(s)})

\* str.split(): the words of s
RECURSIVE Words(_, _)
Words(s, i) ==
    LET a == SkipSpace(s, i)
    IN  IF a >= Len(s) THEN << >>
        ELSE <<Slice(s, a, SkipWord(s, a))>> \o Words(s, SkipWord(s, a))

\* ' '.join(para_stripped.lower().split())
Normalize(para_stripped) == Join(Words(Lower(para_stripped), 0), <<" ">>)

\* the for loop of deduplicate_paragraphs over paragraphs[k..], with the
\* normalized forms seen so far
RECURSIVE DedupLoop(_, _, _)
DedupLoop(paragraphs, k, seen) ==
    IF k > Len(paragraphs) THEN << >>
    ELSE LET para_stripped == Strip(paragraphs[k])
             para_normalized == Normalize(para_stripped)
         IN  IF para_stripped = << >>
             THEN DedupLoop(paragraphs, k + 1, seen)
             ELSE IF para_normalized \notin seen
             THEN <<para_stripped>>
                  \o DedupLoop(paragraphs, k + 1, seen \cup {para_normalized})
             ELSE DedupLoop(paragraphs, k + 1, seen)

deduplicate_paragraphs(text) ==
    Join(DedupLoop(SplitParagraphs(text), 1, {}), BlankLine)

(***************************************************************************)
(* OllamaProcessor.process_with_llm                                        *)
(***************************************************************************)
\* the placeholder echoes text[:100]
EchoLen == 100

UnwantedPrefixes == <<
    <<"h", "e", "r", "e", " ", "i", "s", " ", "t", "h", "e", " ", "t",
      "r", "a", "n", "s", "l", "a", "t", "i", "o", "n", ":">>,
    <<"t", "r", "a", "n", "s", "l", "a", "t", "i", "o", "n", ":">>,
    <<"h", "e", "r", "e", "'", "s", " ", "t", "h", "e", " ", "t", "r",
      "a", "n", "s", "l", "a", "t", "i", "o", "n", ":">>,
    <<"t", "r", "a", "n", "s", "l", "a", "t", "e", "d", " ", "t", "e",
      "x", "t", ":">>,
    <<"h", "e", "r", "e", " ", "i", "s", " ", "t", "h", "e", " ", "c",
      "o", "m", "p", "l", "e", "t", "e", " ", "t", "r", "a", "n", "s",
      "l", "a", "t", "i", "o", "n", ":">>,
    <<"c", "o", "m", "p", "l", "e", "t", "e", " ", "t", "r", "a", "n",
      "s", "l", "a", "t", "i", "o", "n", ":">>,
    <<"h", "e", "r", "e", " ", "i", "s", " ", "t", "h", "e", " ", "p",
      "r", "o", "c", "e", "s", "s", "e", "d", " ", "t", "e", "x", "t",
      ":">>,
    <<"p", "r", "o", "c", "e", "s", "s", "e", "d", " ", "t", "e", "x",
      "t", ":">>
>>

\* the for loop over unwanted_prefixes, from prefix k on
RECURSIVE StripUnwanted(_, _)
StripUnwanted(result, k) ==
    IF k > Len(UnwantedPrefixes) THEN result
    ELSE IF StartsWith(Lower(result), UnwantedPrefixes[k])
    THEN Strip(Slice(result, Len(UnwantedPrefixes[k]), Len(result)))
    ELSE StripUnwanted(result, k + 1)

TimeoutTag ==
    <<"[", "T", "I", "M", "E", "O", "U", "T", " ", "E", "R", "R", "O",
      "R", ":", " ">>

ConnectionTag ==
    <<"[", "C", "O", "N", "N", "E", "C", "T", "I", "O", "N", " ", "E",
      "R", "R", "O", "R", ":", " ">>

FailedTag ==
    <<"[", "P", "R", "O", "C", "E", "S", "S", "I", "N", "G", " ", "F",
      "A", "I", "L", "E", "D", ":", " ">>

ErrorTag ==
    <<"[", "E", "R", "R", "O", "R", ":", " ">>

PlaceholderEnd == <<".", ".", ".", "]">>

\* What one await of client.chat can bring: a response whose content is read
\* ("ok"), asyncio.TimeoutError, ConnectionError, ResponseError, a response
\* whose message cannot be read (KeyError or AttributeError, re-raised as
\* Exception at line 173), or any other Exception.
FailureKinds == {"timeout", "connection", "response_error", "shape", "other"}

\* the tag of the placeholder each except clause returns
PlaceholderTag(kind) ==
    CASE kind = "timeout" -> TimeoutTag
      [] kind = "connection" -> ConnectionTag
      [] kind = "response_error" -> FailedTag
      [] OTHER -> ErrorTag

\* a variant of process_with_llm whose placeholder echoes the whole input
process_with_llm_whole_input(text, outcome) ==
    IF outcome.kind = "ok"
    THEN [result |-> StripUnwanted(Strip(outcome.content), 1), error |-> FALSE]
    ELSE [result |-> PlaceholderTag(outcome.kind) \o text \o PlaceholderEnd,
          error |-> TRUE]

\* process_with_llm(text, ...) once the awaited call has ended with outcome:
\* the string it returns and whether it emitted processing_error
process_with_llm(text, outcome) ==
    IF outcome.kind = "ok"
    THEN [result |-> StripUnwanted(Strip(outcome.content), 1), error |-> FALSE]
    ELSE [result |-> PlaceholderTag(outcome.kind) \o Prefix(text, EchoLen)
                     \o PlaceholderEnd,
          error |-> TRUE]

(***************************************************************************)
(* Configuration and inputs of a run                                       *)
(***************************************************************************)
\* process_pipeline invocations modelled
MaxRuns == 2

\* failures the environment may inject (probe, read, generation, save, write)
MaxFaults == 1

Runs == 1..MaxRuns

\* self.output_base_path before the first run
None == "None"

\* str.format(**given) on a template that refers to the fields named: it
\* raises KeyError when the template names a field that is not given
FormatRaises(fields, given) == ~(fields \subseteq given)

\* the keyword arguments of the format calls of lines 282-299 and 453
SystemArgs == {"src_lang", "target_lang"}

FirstArgs == {"src_lang", "target_lang", "chunk"}

ContinuationArgs == {"src_lang", "target_lang", "context_snippet", "chunk"}

CombinedArgs == {"text"}

\* config prompts of a translation operation: the fields each template names
GoodPrompts ==
    [system_first |-> {"src_lang", "target_lang"},
     user_first |-> {"src_lang", "target_lang", "chunk"},
     system_continuation |-> {"src_lang", "target_lang"},
     user_continuation |-> {"target_lang", "context_snippet", "chunk"}]

\* a config whose user_continuation template names {text} instead of {chunk}
BadContinuationPrompts ==
    [GoodPrompts EXCEPT !.user_continuation = {"context_snippet", "text"}]

\* op_settings of a translation tab (main.py, lines 681-753)
Translation(chunk_size, overlap, deduplicate, prompts) ==
    [operation_id |-> "translation", chunk_size |-> chunk_size,
     overlap |-> overlap, deduplicate |-> deduplicate, prompts |-> prompts,
     step_name |-> "translated", sub_operations |-> << >>, checked |-> {}]

\* op_settings of a rewrite tab: the sub-operations of its config, in config
\* order, and the ids whose flag is true
Rewrite(chunk_size, overlap, sub_operations, checked) ==
    [operation_id |-> "paraphrase", chunk_size |-> chunk_size,
     overlap |-> overlap, deduplicate |-> TRUE, prompts |-> GoodPrompts,
     step_name |-> "paraphrase", sub_operations |-> sub_operations,
     checked |-> checked]

SubOps == <<"improve_flow", "simplify_language">>

\* n copies of the character c
Repeat(c, n) == [k \in 1..n |-> c]

\* "Aa. Bb. Cc.": three sentences
ThreeSentences == <<"A", "a", ".", " ", "B", "b", ".", " ", "C", "c", ".">>

\* a document longer than the 100 characters a placeholder echoes
LongDocument == Repeat("a", EchoLen) \o <<"b", ".">>

\* "Aa. Bb.": two sentences
TwoSentences == <<"A", "a", ".", " ", "B", "b", ".">>

\* the last 150 characters of the context go into the continuation prompt
SnippetLen == 150

\* "aaaa    bbbb": two words with a gap as long as a chunk between them
GapDocument == Repeat("a", 4) \o Repeat(" ", 4) \o Repeat("b", 4)

\* a sentence longer than the context snippet, and a second sentence
WideDocument ==
    Repeat("a", SnippetLen + 8) \o <<".", " ", "B", "b", ".">>

\* the output file of the r-th file of a batch
BatchPaths == <<"out1", "out2", "out3", "out4">>

\* What the presentation layer and the environment bring to the processor:
\* the input document, the pipeline, how often process_pipeline is called,
\* whether the calls are for the same file (a batch started again) or for
\* the successive files of a batch, and the ways in which the generation
\* service fails when it fails.  Documents and chunk sizes are a few
\* characters long, so that a stage has two or three chunks; a rewrite tab
\* reaches the processor with no sub-operation enabled when the only flag
\* set on it is not one of its sub-operations (main.py, lines 702-706).
Scenarios ==
    { [doc |-> ThreeSentences, calls |-> 1, same_file |-> TRUE,
       failures |-> {"timeout"},
       pipeline |-> << Translation(4, 2, TRUE, GoodPrompts),
                       Rewrite(4, 2, SubOps, {"improve_flow", "simplify_language"}) >>],
      [doc |-> ThreeSentences, calls |-> 1, same_file |-> TRUE,
       failures |-> {"response_error"},
       pipeline |-> << Rewrite(4, 2, SubOps, {}),
                       Translation(WholeFile, 0, FALSE, GoodPrompts),
                       Rewrite(8, 0, SubOps, {"simplify_language"}) >>],
      [doc |-> LongDocument, calls |-> 1, same_file |-> TRUE,
       failures |-> FailureKinds,
       pipeline |-> << Translation(WholeFile, 0, TRUE, GoodPrompts) >>],
      [doc |-> ThreeSentences, calls |-> MaxRuns, same_file |-> TRUE,
       failures |-> {"connection"},
       pipeline |-> << Translation(4, 2, FALSE, BadContinuationPrompts) >>],
      [doc |-> TwoSentences, calls |-> MaxRuns, same_file |-> FALSE,
       failures |-> {"shape"},
       pipeline |-> << Translation(4, 2, TRUE, GoodPrompts) >>],
      [doc |-> TwoSentences, calls |-> MaxRuns, same_file |-> TRUE,
       failures |-> {"other"},
       pipeline |-> << Rewrite(4, 2, SubOps, {}) >>],
      [doc |-> GapDocument, calls |-> 1, same_file |-> TRUE,
       failures |-> {"timeout"},
       pipeline |-> << Translation(4, 2, FALSE, GoodPrompts) >>],
      [doc |-> WideDocument, calls |-> 1, same_file |-> TRUE,
       failures |-> {"connection"},
       pipeline |-> << Translation(SnippetLen + 10, SnippetLen + 5, FALSE,
                                   GoodPrompts) >>] }

\* How the generation service answers a request it does not fail: "echo"
\* returns the chunk it was given, "fixed" returns the same short paragraph,
\* with a lead-in phrase and surrounding whitespace, whatever it was given.
Services == {"echo", "fixed"}

FixedReply ==
    <<" ", "T", "r", "a", "n", "s", "l", "a", "t", "i", "o", "n", ":", " ",
      "O", "k", ".", "\n">>

Reply(svc, request) == IF svc = "echo" THEN request.chunk ELSE FixedReply

(***************************************************************************)
(* State                                                                   *)
(***************************************************************************)
VARIABLES
    is_running,        \* OllamaProcessor.is_running
    output_base_path,  \* OllamaProcessor.output_base_path
    files,             \* the file system: file name |-> content
    task,              \* the frame of each process_pipeline coroutine
    log,               \* per invocation: the signals it emitted and the calls it made
    halted,            \* invocations stopped with no invocation admitted since
    stopped,           \* invocations during which stop_processing was called
    early,             \* per invocation: the operations that had completed no
                       \* chunk when stop_processing was called during them
    faults,            \* failures injected so far
    scenario,          \* the document and pipeline of the batch
    service,           \* the behaviour of the generation service
    work               \* a call of chunk_text or deduplicate_paragraphs on its
                       \* own: its arguments, its position and its locals

vars == <<is_running, output_base_path, files, task, log, halted, stopped, early,
          faults, scenario, service, work>>

pipeline == scenario.pipeline

\* no generation request outstanding
NoRequest ==
    [pair |-> "none", system_prompt |-> << >>, user_prompt |-> << >>,
     chunk |-> << >>, context_snippet |-> << >>, temperature |-> "none"]

\* the frame of a coroutine that has not been called: its position, its
\* locals, and two records of its history: broke, that one of its
\* "if not self.is_running" checks (or the final "if self.is_running") found
\* the flag cleared, and exit_flag, the value of is_running when it ended
IdleFrame ==
    [pc |-> "idle", output_path |-> None, text |-> << >>, op |-> 0,
     step_counter |-> 0, chunks |-> << >>, idx |-> 0, parts |-> << >>,
     request |-> NoRequest, broke |-> FALSE, exit_flag |-> FALSE]

\* positions at which a coroutine is suspended in an await, and ended ones
AwaitPcs == {"probe", "chat", "sleep"}

EndPcs == {"refused", "done", "raised"}

\* an invocation past the is_running guard that has not returned
Active(r) == task[r].pc \notin {"idle"} \cup EndPcs

\* asyncio runs one coroutine at a time: between two awaits a coroutine is
\* not interleaved with anything else
Running(r) == Active(r) /\ task[r].pc \notin AwaitPcs

LoopIdle == \A r \in Runs : ~Running(r)

\* whether the environment may still inject a failure
MayFail == faults < MaxFaults

Outcomes == IF MayFail THEN {TRUE, FALSE} ELSE {TRUE}

\* what an outcome takes from the budget of failures
Cost(ok) == IF ok THEN 0 ELSE 1

Emit(r, events) == log' = [log EXCEPT ![r] = @ \o events]

\* no call of chunk_text or deduplicate_paragraphs on its own
NoWork == [kind |-> "none"]

\* OllamaProcessor.__init__
ProcessorInit ==
    /\ is_running = FALSE
    /\ output_base_path = None
    /\ files = [n \in {} |-> << >>]
    /\ task = [r \in Runs |-> IdleFrame]
    /\ log = [r \in Runs |-> << >>]
    /\ halted = {}
    /\ stopped = {}
    /\ early = [r \in Runs |-> {}]
    /\ faults = 0
    /\ scenario \in Scenarios
    /\ service \in Services

Init == ProcessorInit /\ work = NoWork

(***************************************************************************)
(* OllamaProcessor.generate_step_filename, save_step                       *)
(***************************************************************************)
\* f"{step_counter:02d}"
TwoDigits == <<"01", "02", "03", "04", "05", "06", "07", "08", "09">>

\* the step file of step_name: base path, then the parts of the step name;
\* the empty name stands for the None returned when no base path is set
generate_step_filename(base, step_name) ==
    IF base = None THEN << >> ELSE <<base>> \o step_name

\* a variant of save_step that emits step_saved after the except clause,
\* whether or not the write raised
save_step_then_signal(fs, base, content, step_name, ok) ==
    LET step_file == generate_step_filename(base, step_name)
    IN  IF step_file = << >> THEN [files |-> fs, events |-> << >>]
        ELSE IF ok
        THEN [files |-> (step_file :> content) @@ fs,
              events |-> << [ev |-> "step_saved", file |-> step_file] >>]
        ELSE [files |-> fs,
              events |-> << [ev |-> "error", src |-> "save"],
                            [ev |-> "step_saved", file |-> step_file] >>]

\* save_step(content, step_name) whose write succeeds (ok) or raises: the
\* file system afterwards and the signals emitted
save_step(fs, base, content, step_name, ok) ==
    LET step_file == generate_step_filename(base, step_name)
    IN  IF step_file = << >> THEN [files |-> fs, events |-> << >>]
        ELSE IF ok
        THEN [files |-> (step_file :> content) @@ fs,
              events |-> << [ev |-> "step_saved", file |-> step_file] >>]
        ELSE [files |-> fs, events |-> << [ev |-> "error", src |-> "save"] >>]

(***************************************************************************)
(* OllamaProcessor.build_combined_prompt                                   *)
(***************************************************************************)
\* The combined prompts, as the list of instructions of the system prompt
\* and the list of task names and fields of the user template.
build_combined_prompt(op_settings, enabled_sub_ops) ==
    LET known == SelectSeq(enabled_sub_ops,
                           LAMBDA id : \E k \in 1..Len(op_settings.sub_operations) :
                                           op_settings.sub_operations[k] = id)
    IN  IF enabled_sub_ops = << >>
        THEN [system |-> << >>, user |-> << >>, fields |-> {}]
        ELSE [system |-> <<"tasks">> \o known \o <<"requirements">>,
              user |-> <<"apply">> \o known \o <<"{text}">>,
              fields |-> CombinedArgs]

\* a variant of EnabledSubOps that does not look at the flags
AllSubOps(op_settings) == op_settings.sub_operations

\* lines 531-536: the sub-operations of the tab whose flag is true
EnabledSubOps(op_settings) ==
    SelectSeq(op_settings.sub_operations, LAMBDA id : id \in op_settings.checked)

(***************************************************************************)
(* OllamaProcessor.process_pipeline, as one coroutine per invocation       *)
(***************************************************************************)
\* the invocation returns or raises: its frame ends with the value
\* is_running has at that moment
EndFrame(frame, pc, flag) == [frame EXCEPT !.pc = pc, !.exit_flag = flag]

\* a variant of CancelObserved: a loop that never looks at the flag
CancelIgnored == FALSE

\* lines 274, 447 and 514: "if not self.is_running: break"
CancelObserved == ~is_running

\* a variant of FlagAfterAbort: a return that leaves the flag as it is
FlagLeftAsIs == is_running

\* lines 493, 497 and 508: "self.is_running = False" before the return
FlagAfterAbort == FALSE

\* the output_path of the r-th call (main.py, lines 788-817)
OutputPath(r) == IF scenario.same_file THEN BatchPaths[1] ELSE BatchPaths[r]

\* a variant of process_pipeline that takes over output_base_path before it
\* looks at the guard
process_pipeline_path_first(r, output_path) ==
    /\ LoopIdle
    /\ task[r].pc = "idle"
    /\ \A q \in 1..(r - 1) : task[q].pc # "idle"
    /\ r <= scenario.calls
    /\ output_path = OutputPath(r)
    /\ output_base_path' = output_path
    /\ IF is_running
       THEN /\ task' = [task EXCEPT ![r] = EndFrame(@, "refused", is_running)]
            /\ Emit(r, << [ev |-> "error", src |-> "already_running"] >>)
            /\ UNCHANGED <<is_running, halted>>
       ELSE /\ is_running' = TRUE
            /\ task' = [task EXCEPT ![r] = [@ EXCEPT !.pc = "probe",
                                                   !.output_path = output_path]]
            /\ Emit(r, << [ev |-> "status", msg |-> "testing"] >>)
            /\ halted' = {}
    /\ UNCHANGED <<files, stopped, early, faults, scenario, service, work>>

\* lines 477-486: the guard, and the start of the connection probe
process_pipeline(r, output_path) ==
    /\ LoopIdle
    /\ task[r].pc = "idle"
    /\ \A q \in 1..(r - 1) : task[q].pc # "idle"
    /\ r <= scenario.calls
    /\ output_path = OutputPath(r)
    /\ IF is_running
       THEN /\ task' = [task EXCEPT ![r] = EndFrame(@, "refused", is_running)]
            /\ Emit(r, << [ev |-> "error", src |-> "already_running"] >>)
            /\ UNCHANGED <<is_running, output_base_path, halted>>
       ELSE /\ is_running' = TRUE
            /\ output_base_path' = output_path
            /\ task' = [task EXCEPT ![r] = [@ EXCEPT !.pc = "probe",
                                                   !.output_path = output_path]]
            /\ Emit(r, << [ev |-> "status", msg |-> "testing"] >>)
            /\ halted' = {}
    /\ UNCHANGED <<files, stopped, early, faults, scenario, service, work>>

\* lines 488-498: await self.client.list() returns or raises
ProbeReturns(r, ok) ==
    /\ LoopIdle
    /\ task[r].pc = "probe"
    /\ ok \in Outcomes
    /\ IF ok
       THEN /\ task' = [task EXCEPT ![r].pc = "read"]
            /\ Emit(r, << [ev |-> "status", msg |-> "connected"] >>)
            /\ UNCHANGED <<is_running, faults>>
       ELSE /\ is_running' = FlagAfterAbort
            /\ task' = [task EXCEPT ![r] = EndFrame(@, "done", FlagAfterAbort)]
            /\ Emit(r, << [ev |-> "error", src |-> "probe"] >>)
            /\ faults' = faults + 1
    /\ UNCHANGED <<output_base_path, files, halted, stopped, early, scenario, service, work>>

\* lines 500-511: the input file is read, or open/read raises
ReadInput(r, ok) ==
    /\ task[r].pc = "read"
    /\ ok \in Outcomes
    /\ IF ok
       THEN /\ task' = [task EXCEPT ![r] = [@ EXCEPT !.pc = "next_op",
                                                   !.text = scenario.doc,
                                                   !.step_counter = 1,
                                                   !.op = 1]]
            /\ Emit(r, << [ev |-> "status", msg |-> "reading"],
                          [ev |-> "status", msg |-> "loaded"] >>)
            /\ UNCHANGED <<is_running, faults>>
       ELSE /\ is_running' = FlagAfterAbort
            /\ task' = [task EXCEPT ![r] = EndFrame(@, "done", FlagAfterAbort)]
            /\ Emit(r, << [ev |-> "status", msg |-> "reading"],
                          [ev |-> "error", src |-> "read"] >>)
            /\ faults' = faults + 1
    /\ UNCHANGED <<output_base_path, files, halted, stopped, early, scenario, service, work>>

\* lines 513-522 and 529-539: the head of the loop over the pipeline
NextOperation(r) ==
    /\ task[r].pc = "next_op"
    /\ LET f == task[r]
       IN  IF f.op > Len(pipeline)
           THEN /\ task' = [task EXCEPT ![r].pc = "final"]
                /\ UNCHANGED log
           ELSE IF CancelObserved
           THEN /\ task' = [task EXCEPT ![r] = [@ EXCEPT !.pc = "final",
                                                       !.broke = TRUE]]
                /\ UNCHANGED log
           ELSE /\ Emit(r, << [ev |-> "status", msg |-> "starting"] >>)
                /\ IF pipeline[f.op].operation_id = "translation"
                   THEN task' = [task EXCEPT ![r].pc = "translate"]
                   ELSE IF EnabledSubOps(pipeline[f.op]) # << >>
                   THEN task' = [task EXCEPT ![r].pc = "combine"]
                   ELSE task' = [task EXCEPT ![r].op = @ + 1]
    /\ UNCHANGED <<is_running, output_base_path, files, halted, stopped, early, faults,
                   scenario, service, work>>

(***************************************************************************)
(* OllamaProcessor.execute_translation                                     *)
(***************************************************************************)
InTranslation(r) ==
    /\ task[r].op \in 1..Len(pipeline)
    /\ pipeline[task[r].op].operation_id = "translation"

InCombined(r) ==
    /\ task[r].op \in 1..Len(pipeline)
    /\ pipeline[task[r].op].operation_id # "translation"

\* a variant of TranslationRequest that takes the continuation pair for
\* every chunk but the first, whatever its context
TranslationRequestByPosition(op_settings, c) ==
    IF ~c.is_first
    THEN [pair |-> "continuation",
          system_prompt |-> <<"system_continuation">>,
          user_prompt |-> <<"user_continuation">>,
          chunk |-> c.chunk,
          context_snippet |-> IF Len(c.context) > SnippetLen
                              THEN Suffix(c.context, SnippetLen)
                              ELSE c.context,
          temperature |-> "0.3"]
    ELSE [pair |-> "first",
          system_prompt |-> <<"system_first">>,
          user_prompt |-> <<"user_first">>,
          chunk |-> c.chunk,
          context_snippet |-> << >>,
          temperature |-> "0.3"]

\* lines 280-299: the prompt pair of a chunk and the fields its templates name
TranslationRequest(op_settings, c) ==
    IF ~c.is_first /\ c.context # << >>
    THEN [pair |-> "continuation",
          system_prompt |-> <<"system_continuation">>,
          user_prompt |-> <<"user_continuation">>,
          chunk |-> c.chunk,
          context_snippet |-> IF Len(c.context) > SnippetLen
                              THEN Suffix(c.context, SnippetLen)
                              ELSE c.context,
          temperature |-> "0.3"]
    ELSE [pair |-> "first",
          system_prompt |-> <<"system_first">>,
          user_prompt |-> <<"user_first">>,
          chunk |-> c.chunk,
          context_snippet |-> << >>,
          temperature |-> "0.3"]

\* whether one of the format calls of lines 282-299 raises
TranslationFormatRaises(op_settings, c) ==
    IF ~c.is_first /\ c.context # << >>
    THEN \/ FormatRaises(op_settings.prompts.system_continuation, SystemArgs)
         \/ FormatRaises(op_settings.prompts.user_continuation, ContinuationArgs)
    ELSE \/ FormatRaises(op_settings.prompts.system_first, SystemArgs)
         \/ FormatRaises(op_settings.prompts.user_first, FirstArgs)

\* lines 246-271: the text is chunked
execute_translation(r) ==
    /\ task[r].pc = "translate"
    /\ LET f == task[r]
           op_settings == pipeline[f.op]
           chunks == chunk_text(f.text, op_settings.chunk_size, op_settings.overlap)
       IN  /\ task' = [task EXCEPT ![r] = [@ EXCEPT !.pc = "chunk",
                                                  !.chunks = chunks,
                                                  !.idx = 1,
                                                  !.parts = << >>]]
           /\ Emit(r, << [ev |-> "enter", op |-> f.op, input |-> f.text,
                          total |-> Len(chunks)],
                         [ev |-> "status", msg |-> "translation"] >>)
    /\ UNCHANGED <<is_running, output_base_path, files, halted, stopped, early, faults,
                   scenario, service, work>>

\* lines 273-304: the head of the loop over the chunks, up to the await of
\* the generation call
TranslateChunk(r) ==
    /\ task[r].pc = "chunk"
    /\ InTranslation(r)
    /\ LET f == task[r]
           op_settings == pipeline[f.op]
       IN  IF f.idx > Len(f.chunks)
           THEN /\ task' = [task EXCEPT ![r].pc = "stage_end"]
                /\ UNCHANGED log
           ELSE IF CancelObserved
           THEN /\ task' = [task EXCEPT ![r] = [@ EXCEPT !.pc = "stage_end",
                                                       !.broke = TRUE]]
                /\ UNCHANGED log
           ELSE IF TranslationFormatRaises(op_settings, f.chunks[f.idx])
           THEN /\ task' = [task EXCEPT ![r] = EndFrame(@, "raised", is_running)]
                /\ UNCHANGED log
           ELSE LET request == TranslationRequest(op_settings, f.chunks[f.idx])
                IN  /\ task' = [task EXCEPT ![r] = [@ EXCEPT !.pc = "chat",
                                                           !.request = request]]
                    /\ Emit(r, << [ev |-> "chat", op |-> f.op, idx |-> f.idx,
                                   request |-> request] >>)
    /\ UNCHANGED <<is_running, output_base_path, files, halted, stopped, early, faults,
                   scenario, service, work>>

\* what the awaited client.chat brings: the service's reply, or a failure
ChatOutcomes(request) ==
    { [kind |-> "ok", content |-> Reply(service, request)] }
    \cup IF MayFail
         THEN { [kind |-> k, content |-> << >>] : k \in scenario.failures }
         ELSE {}

\* lines 302-320: the generation call ends; the part is appended, the
\* progress snapshot saved, progress emitted, and the coroutine sleeps
TranslationChatReturns(r, outcome, save_ok) ==
    /\ LoopIdle
    /\ task[r].pc = "chat"
    /\ InTranslation(r)
    /\ outcome \in ChatOutcomes(task[r].request)
    /\ save_ok \in BOOLEAN
    /\ faults + Cost(outcome.kind = "ok") + Cost(save_ok) <= MaxFaults
    /\ LET f == task[r]
           op_settings == pipeline[f.op]
           got == process_with_llm(f.request.chunk, outcome)
           translated_parts == Append(f.parts, got.result)
           current_translation == Join(translated_parts, BlankLine)
           saved == save_step(files, output_base_path, current_translation,
                              <<op_settings.step_name, "progress">>, save_ok)
       IN  /\ task' = [task EXCEPT ![r] = [@ EXCEPT !.pc = "sleep",
                                                  !.parts = translated_parts,
                                                  !.request = NoRequest]]
           /\ files' = saved.files
           /\ Emit(r, (IF got.error
                       THEN << [ev |-> "error", src |-> outcome.kind] >>
                       ELSE << >>)
                      \o << [ev |-> "part", op |-> f.op, idx |-> f.idx,
                             input |-> f.request.chunk, result |-> got.result] >>
                      \o saved.events
                      \o << [ev |-> "progress", current |-> f.idx,
                             total |-> Len(f.chunks)] >>)
           /\ faults' = faults + Cost(outcome.kind = "ok") + Cost(save_ok)
    /\ UNCHANGED <<is_running, output_base_path, halted, stopped, early, scenario, service, work>>

\* a variant of SleepReturns whose loop stays on the chunk it has just done
SleepReturnsSameChunk(r) ==
    /\ LoopIdle
    /\ task[r].pc = "sleep"
    /\ task' = [task EXCEPT ![r].pc = "chunk"]
    /\ UNCHANGED <<is_running, output_base_path, files, log, halted, stopped, early,
                   faults, scenario, service, work>>

\* a variant of the return from asyncio.sleep in which the stage executor
\* sets the running flag again before it goes to its next chunk
SleepReturnsSetsFlag(r) ==
    /\ LoopIdle
    /\ task[r].pc = "sleep"
    /\ task' = [task EXCEPT ![r] = [@ EXCEPT !.pc = "chunk", !.idx = @ + 1]]
    /\ is_running' = TRUE
    /\ UNCHANGED <<output_base_path, files, log, halted, stopped, early,
                   faults, scenario, service, work>>

\* line 320 (and 466): asyncio.sleep returns and the loop goes to its next chunk
SleepReturns(r) ==
    /\ LoopIdle
    /\ task[r].pc = "sleep"
    /\ task' = [task EXCEPT ![r] = [@ EXCEPT !.pc = "chunk", !.idx = @ + 1]]
    /\ UNCHANGED <<is_running, output_base_path, files, log, halted, stopped, early,
                   faults, scenario, service, work>>

\* lines 322-328 and 524-527: the parts are joined and deduplicated, and
\* process_pipeline saves the result as the numbered step
TranslationEnd(r, save_ok) ==
    /\ task[r].pc = "stage_end"
    /\ InTranslation(r)
    /\ save_ok \in Outcomes
    /\ LET f == task[r]
           op_settings == pipeline[f.op]
           joined == Join(f.parts, BlankLine)
           result == IF op_settings.deduplicate
                     THEN deduplicate_paragraphs(joined) ELSE joined
           saved == save_step(files, output_base_path, result,
                              <<TwoDigits[f.step_counter], op_settings.step_name>>,
                              save_ok)
       IN  /\ task' = [task EXCEPT ![r] = [@ EXCEPT !.pc = "next_op",
                                                  !.text = result,
                                                  !.step_counter = @ + 1,
                                                  !.op = @ + 1,
                                                  !.chunks = << >>,
                                                  !.idx = 0,
                                                  !.parts = << >>]]
           /\ files' = saved.files
           /\ Emit(r, << [ev |-> "leave", op |-> f.op, result |-> result,
                          number |-> f.step_counter] >>
                      \o saved.events)
           /\ faults' = faults + Cost(save_ok)
    /\ UNCHANGED <<is_running, output_base_path, halted, stopped, early, scenario, service, work>>

(***************************************************************************)
(* OllamaProcessor.execute_combined_operation                              *)
(***************************************************************************)
\* lines 413-444: the prompts are built once and the text is chunked
execute_combined_operation(r) ==
    /\ task[r].pc = "combine"
    /\ LET f == task[r]
           op_settings == pipeline[f.op]
           chunks == chunk_text(f.text, op_settings.chunk_size, op_settings.overlap)
       IN  /\ task' = [task EXCEPT ![r] = [@ EXCEPT !.pc = "chunk",
                                                  !.chunks = chunks,
                                                  !.idx = 1,
                                                  !.parts = << >>]]
           /\ Emit(r, << [ev |-> "enter", op |-> f.op, input |-> f.text,
                          total |-> Len(chunks)],
                         [ev |-> "status", msg |-> "combined"] >>)
    /\ UNCHANGED <<is_running, output_base_path, files, halted, stopped, early, faults,
                   scenario, service, work>>

\* lines 453-459: the request of a chunk
CombinedRequest(op_settings, c) ==
    LET prompt == build_combined_prompt(op_settings, EnabledSubOps(op_settings))
    IN  [pair |-> "combined",
         system_prompt |-> prompt.system,
         user_prompt |-> prompt.user,
         chunk |-> c.chunk,
         context_snippet |-> << >>,
         temperature |-> "op_settings"]

\* lines 446-459: the head of the loop over the chunks, up to the await of
\* the generation call
CombineChunk(r) ==
    /\ task[r].pc = "chunk"
    /\ InCombined(r)
    /\ LET f == task[r]
           op_settings == pipeline[f.op]
           prompt == build_combined_prompt(op_settings, EnabledSubOps(op_settings))
       IN  IF f.idx > Len(f.chunks)
           THEN /\ task' = [task EXCEPT ![r].pc = "stage_end"]
                /\ UNCHANGED log
           ELSE IF CancelObserved
           THEN /\ task' = [task EXCEPT ![r] = [@ EXCEPT !.pc = "stage_end",
                                                       !.broke = TRUE]]
                /\ UNCHANGED log
           ELSE IF FormatRaises(prompt.fields, CombinedArgs)
           THEN /\ task' = [task EXCEPT ![r] = EndFrame(@, "raised", is_running)]
                /\ UNCHANGED log
           ELSE LET request == CombinedRequest(op_settings, f.chunks[f.idx])
                IN  /\ task' = [task EXCEPT ![r] = [@ EXCEPT !.pc = "chat",
                                                           !.request = request]]
                    /\ Emit(r, << [ev |-> "chat", op |-> f.op, idx |-> f.idx,
                                   request |-> request] >>)
    /\ UNCHANGED <<is_running, output_base_path, files, halted, stopped, early, faults,
                   scenario, service, work>>

\* lines 457-466: the generation call ends; the part is appended, progress
\* emitted, and the coroutine sleeps
CombinedChatReturns(r, outcome) ==
    /\ LoopIdle
    /\ task[r].pc = "chat"
    /\ InCombined(r)
    /\ outcome \in ChatOutcomes(task[r].request)
    /\ LET f == task[r]
           got == process_with_llm(f.request.chunk, outcome)
       IN  /\ task' = [task EXCEPT ![r] = [@ EXCEPT !.pc = "sleep",
                                                  !.parts = Append(@, got.result),
                                                  !.request = NoRequest]]
           /\ Emit(r, (IF got.error
                       THEN << [ev |-> "error", src |-> outcome.kind] >>
                       ELSE << >>)
                      \o << [ev |-> "part", op |-> f.op, idx |-> f.idx,
                             input |-> f.request.chunk, result |-> got.result] >>
                      \o << [ev |-> "progress", current |-> f.idx,
                             total |-> Len(f.chunks)] >>)
           /\ faults' = faults + Cost(outcome.kind = "ok")
    /\ UNCHANGED <<is_running, output_base_path, files, halted, stopped, early, scenario,
                   service, work>>

\* lines 543-545: the step name made of the step names of the enabled tasks
CombinedStepName(op_settings) == EnabledSubOps(op_settings)

\* lines 468-473 and 540-548: the parts are joined and deduplicated, and
\* process_pipeline saves the result as the numbered step
CombinedEnd(r, save_ok) ==
    /\ task[r].pc = "stage_end"
    /\ InCombined(r)
    /\ save_ok \in Outcomes
    /\ LET f == task[r]
           op_settings == pipeline[f.op]
           result == deduplicate_paragraphs(Join(f.parts, BlankLine))
           saved == save_step(files, output_base_path, result,
                              <<TwoDigits[f.step_counter]>>
                              \o CombinedStepName(op_settings),
                              save_ok)
       IN  /\ task' = [task EXCEPT ![r] = [@ EXCEPT !.pc = "next_op",
                                                  !.text = result,
                                                  !.step_counter = @ + 1,
                                                  !.op = @ + 1,
                                                  !.chunks = << >>,
                                                  !.idx = 0,
                                                  !.parts = << >>]]
           /\ files' = saved.files
           /\ Emit(r, << [ev |-> "leave", op |-> f.op, result |-> result,
                          number |-> f.step_counter] >>
                      \o saved.events)
           /\ faults' = faults + Cost(save_ok)
    /\ UNCHANGED <<is_running, output_base_path, halted, stopped, early, scenario, service, work>>

(***************************************************************************)
(* The end of process_pipeline, and stop_processing                        *)
(***************************************************************************)
\* a variant of FinalWrite: processing_finished emitted after the try block,
\* whether or not the write raised
FinalWriteThenFinished(fs, output_path, text, ok) ==
    IF ok
    THEN [files |-> (<<output_path>> :> text) @@ fs,
          events |-> << [ev |-> "write", file |-> <<output_path>>, content |-> text],
                        [ev |-> "finished", path |-> output_path] >>]
    ELSE [files |-> fs,
          events |-> << [ev |-> "error", src |-> "write"],
                        [ev |-> "finished", path |-> output_path] >>]

\* a variant of FinalWrite: the final output file receives the input
\* document instead of the text the last stage returned
FinalWriteOfInput(fs, output_path, text, ok) ==
    IF ok
    THEN [files |-> (<<output_path>> :> scenario.doc) @@ fs,
          events |-> << [ev |-> "write", file |-> <<output_path>>,
                         content |-> scenario.doc],
                        [ev |-> "finished", path |-> output_path] >>]
    ELSE [files |-> fs, events |-> << [ev |-> "error", src |-> "write"] >>]

\* lines 551-558: the output file is written and processing_finished
\* emitted, or the write raises and processing_error is emitted
FinalWrite(fs, output_path, text, ok) ==
    IF ok
    THEN [files |-> (<<output_path>> :> text) @@ fs,
          events |-> << [ev |-> "write", file |-> <<output_path>>, content |-> text],
                        [ev |-> "finished", path |-> output_path] >>]
    ELSE [files |-> fs, events |-> << [ev |-> "error", src |-> "write"] >>]

\* lines 550-560: the final output is written unless the flag is cleared,
\* and the flag is cleared
Finish(r, write_ok) ==
    /\ task[r].pc = "final"
    /\ write_ok \in (IF is_running THEN Outcomes ELSE {TRUE})
    /\ LET f == task[r]
           written == FinalWrite(files, f.output_path, f.text, write_ok)
       IN  IF is_running
           THEN /\ files' = written.files
                /\ Emit(r, written.events)
                /\ faults' = faults + Cost(write_ok)
                /\ task' = [task EXCEPT ![r] = EndFrame(@, "done", FALSE)]
           ELSE /\ task' = [task EXCEPT ![r] =
                                EndFrame([@ EXCEPT !.broke = TRUE], "done", FALSE)]
                /\ UNCHANGED <<files, log, faults>>
    /\ is_running' = FALSE
    /\ UNCHANGED <<output_base_path, halted, stopped, early, scenario, service, work>>

\* the operation an invocation is executing, when it awaits the generation
\* call of its first chunk
FreshOperation(r) ==
    IF task[r].pc = "chat" /\ task[r].parts = << >>
    THEN {task[r].op} ELSE {}

\* lines 562-564, called from the Stop button (main.py line 925)
stop_processing ==
    /\ LoopIdle
    /\ is_running' = FALSE
    /\ halted' = halted \cup {r \in Runs : Active(r)}
    /\ stopped' = stopped \cup {r \in Runs : Active(r)}
    /\ early' = [r \in Runs |-> early[r] \cup FreshOperation(r)]
    /\ UNCHANGED <<output_base_path, files, task, log, faults, scenario, service, work>>

Next ==
    \/ \E r \in Runs : process_pipeline(r, OutputPath(r))
    \/ \E r \in Runs, ok \in BOOLEAN : ProbeReturns(r, ok)
    \/ \E r \in Runs, ok \in BOOLEAN : ReadInput(r, ok)
    \/ \E r \in Runs : NextOperation(r)
    \/ \E r \in Runs : execute_translation(r)
    \/ \E r \in Runs : TranslateChunk(r)
    \/ \E r \in Runs, save_ok \in BOOLEAN :
          \E outcome \in ChatOutcomes(task[r].request) :
             TranslationChatReturns(r, outcome, save_ok)
    \/ \E r \in Runs : SleepReturns(r)
    \/ \E r \in Runs, save_ok \in BOOLEAN : TranslationEnd(r, save_ok)
    \/ \E r \in Runs : execute_combined_operation(r)
    \/ \E r \in Runs : CombineChunk(r)
    \/ \E r \in Runs :
          \E outcome \in ChatOutcomes(task[r].request) :
             CombinedChatReturns(r, outcome)
    \/ \E r \in Runs, save_ok \in BOOLEAN : CombinedEnd(r, save_ok)
    \/ \E r \in Runs, write_ok \in BOOLEAN : Finish(r, write_ok)
    \/ stop_processing

Spec == Init /\ [][Next]_vars

\* Type-level sanity of the state
TypeOK ==
    /\ is_running \in BOOLEAN
    /\ output_base_path \in {BatchPaths[k] : k \in 1..Len(BatchPaths)} \cup {None}
    /\ faults \in 0..MaxFaults
    /\ \A r \in Runs :
          task[r].pc \in {"idle", "probe", "read", "next_op", "translate",
                          "combine", "chunk", "chat", "sleep", "stage_end",
                          "final"} \cup EndPcs

(***************************************************************************)
(* What the logs of the invocations say                                    *)
(***************************************************************************)
\* the positions of the log of invocation r that hold an event of a kind
Positions(r, kind) == {i \in DOMAIN log[r] : log[r][i].ev = kind}

Count(r, kind) == Cardinality(Positions(r, kind))

\* the processing_error emissions of invocation r that come from srcs
ErrorsFrom(r, srcs) == {i \in Positions(r, "error") : log[r][i].src \in srcs}

\* the generation requests and the completed chunks of a stage
ChatsOf(r, op) == {i \in Positions(r, "chat") : log[r][i].op = op}

PartsOf(r, op) == {i \in Positions(r, "part") : log[r][i].op = op}

\* the invocation went past the guard and ended, by a return or an exception
Ended(r) == task[r].pc \in {"done", "raised"}

\* the invocation returned without one of its cancel checks having failed
Completed(r) == task[r].pc = "done" /\ ~task[r].broke

\* a rewrite stage none of whose tasks is enabled
NoTaskEnabled(k) ==
    /\ pipeline[k].operation_id # "translation"
    /\ \A j \in 1..Len(pipeline[k].sub_operations) :
          pipeline[k].sub_operations[j] \notin pipeline[k].checked

\* every stage of the pipeline that has something to do was entered and
\* completed all its chunks
AllStagesProcessed(r) ==
    \A k \in 1..Len(pipeline) :
       \/ NoTaskEnabled(k)
       \/ \E e \in Positions(r, "enter") :
             /\ log[r][e].op = k
             /\ Cardinality(PartsOf(r, k)) = log[r][e].total

\* the stages whose result process_pipeline saved as a numbered step
NumberedSteps(r) ==
    {log[r][i].op : i \in {j \in Positions(r, "leave") :
                              /\ j < Len(log[r])
                              /\ log[r][j + 1].ev = "step_saved"}}

\* chunks and stages started in a log
Starts(l) ==
    Cardinality({i \in DOMAIN l :
                    \/ l[i].ev \in {"chat", "enter"}
                    \/ l[i].ev = "status" /\ l[i].msg = "starting"})

(***************************************************************************)
(* C1 - C4: the run flag and cancellation                                  *)
(***************************************************************************)
\* C1: on every path by which process_pipeline ends after it has passed the
\* guard (completion, probe, read or write failure, cancellation, an error
\* escaping a stage executor), is_running is false when it ends.
C1_FlagClearedOnEveryExit ==
    \A r \in Runs : Ended(r) => task[r].exit_flag = FALSE

\* C2: whatever the interleaving of process_pipeline and stop_processing
\* calls, at most one invocation is past the guard and not yet returned, and
\* at most one generation call is outstanding.
C2_OneActiveRun ==
    /\ Cardinality({r \in Runs : Active(r)}) <= 1
    /\ Cardinality({r \in Runs : task[r].pc = "chat"}) <= 1

\* C3: an invocation during which stop_processing was called never writes
\* the final output file and never emits processing_finished, whatever calls
\* follow the stop.
C3_StoppedRunWritesNothing ==
    \A r \in stopped : Positions(r, "write") = {} /\ Positions(r, "finished") = {}

\* C4: when stop_processing is called before any chunk of the current stage
\* has completed, no numbered step is saved for that stage, and is_running
\* is false when the invocation ends.
C4_NoNumberedStepForStoppedStage ==
    \A r \in Runs :
       /\ early[r] \cap NumberedSteps(r) = {}
       /\ (early[r] # {} /\ Ended(r)) => task[r].exit_flag = FALSE

\* C5: after stop_processing was called during an invocation, and as long
\* as no new invocation is admitted, that invocation starts no further chunk
\* and no further stage; stop_processing itself leaves the invocation where
\* it is, and a generation call in flight still returns its part.
C5_Step ==
    /\ \A r \in halted' \ halted : task'[r] = task[r]
    /\ \A r \in halted \cap halted' :
          /\ Starts(log'[r]) = Starts(log[r])
          /\ task[r].pc = "chat" =>
                \/ task'[r] = task[r]
                \/ /\ task'[r].pc = "sleep"
                   /\ Len(task'[r].parts) = Len(task[r].parts) + 1

C5_StopTakesEffectAtNextCheck == [][C5_Step]_vars

\* a stop during the generation call of the first of several chunks: the
\* call completed, no other chunk was started, and the invocation returned
C5_Witness ==
    \E r \in halted :
       /\ task[r].pc = "done"
       /\ \E e \in Positions(r, "enter") :
             /\ log[r][e].op \in early[r]
             /\ log[r][e].total > 1
             /\ Cardinality(ChatsOf(r, log[r][e].op)) = 1
             /\ Cardinality(PartsOf(r, log[r][e].op)) = 1

\* the placeholders that hold the first 100 characters of an input
PlaceholdersOf(input) ==
    {tag \o Prefix(input, 100) \o PlaceholderEnd :
        tag \in {TimeoutTag, ConnectionTag, FailedTag, ErrorTag}}

\* C6: a generation failure on a chunk does not abort the invocation: the
\* part of the chunk is a placeholder with at most the first 100 characters
\* of the chunk, one processing_error is emitted for the failure, and an
\* invocation that is not cancelled still processes every chunk and stage,
\* writes the final output and emits processing_finished.
C6_FailureDoesNotAbort ==
    \A r \in Runs :
       /\ \A i \in ErrorsFrom(r, FailureKinds) :
             /\ i > 1 /\ i < Len(log[r])
             /\ log[r][i - 1].ev = "chat"
             /\ log[r][i + 1].ev = "part"
             /\ log[r][i + 1].input = log[r][i - 1].request.chunk
             /\ log[r][i + 1].result \in PlaceholdersOf(log[r][i + 1].input)
       /\ ( /\ ErrorsFrom(r, FailureKinds) # {}
            /\ Completed(r)
            /\ ErrorsFrom(r, {"write"}) = {} )
          => /\ AllStagesProcessed(r)
             /\ Count(r, "write") = 1
             /\ Count(r, "finished") = 1

\* a failure on a chunk that is not the last one, in an invocation that
\* went on to emit processing_finished
C6_Witness ==
    \E r \in Runs :
       /\ Count(r, "finished") = 1
       /\ \E i \in ErrorsFrom(r, FailureKinds) :
             \E j \in Positions(r, "chat") : j > i

\* C7: when the connection probe or the reading of the input file fails, the
\* invocation emits exactly one processing_error, issues no generation call,
\* saves no step, writes no output file, does not emit processing_finished,
\* and ends with is_running false.
C7_ProbeOrReadFailureAborts ==
    \A r \in Runs :
       ErrorsFrom(r, {"probe", "read"}) # {} =>
          /\ Count(r, "error") = 1
          /\ \A kind \in {"enter", "chat", "part", "step_saved", "leave",
                          "write", "finished"} : Positions(r, kind) = {}
          /\ task[r].pc = "done"
          /\ task[r].exit_flag = FALSE

\* the input file could not be read, after the probe had succeeded
C7_Witness ==
    \E r \in Runs :
       /\ ErrorsFrom(r, {"read"}) # {}
       /\ \E i \in Positions(r, "status") : log[r][i].msg = "connected"

\* C8: every executed stage issues one generation request per chunk of its
\* input, each chunk once and in order (no retry), whatever the number of
\* enabled tasks; an invocation that is not cancelled issues all of them, so
\* that a translation over 3 chunks followed by a rewrite with two enabled
\* tasks over 3 chunks issues 6 requests.
C8_OneRequestPerChunk ==
    \A r \in Runs :
       /\ \A e \in Positions(r, "enter") :
             LET op == log[r][e].op
                 requests == ChatsOf(r, op)
             IN  /\ log[r][e].total =
                       Len(chunk_text(log[r][e].input, pipeline[op].chunk_size,
                                      pipeline[op].overlap))
                 /\ {log[r][i].idx : i \in requests} = 1..Cardinality(requests)
                 /\ Cardinality(requests) <= log[r][e].total
                 /\ Completed(r) => Cardinality(requests) = log[r][e].total
       /\ \A i \in Positions(r, "chat") :
             \E e \in Positions(r, "enter") : e < i /\ log[r][e].op = log[r][i].op
       /\ ( /\ Completed(r)
            /\ Len(pipeline) = 2
            /\ pipeline[1].operation_id = "translation"
            /\ Cardinality(pipeline[2].checked) = 2
            /\ Count(r, "enter") = 2
            /\ \A e \in Positions(r, "enter") : log[r][e].total = 3 )
          => Count(r, "chat") = 6

\* a translation over 3 chunks and a rewrite with two tasks over 3 chunks
\* have completed with 6 requests
C8_Witness ==
    \E r \in Runs :
       /\ Completed(r)
       /\ Len(pipeline) = 2
       /\ Cardinality(pipeline[2].checked) = 2
       /\ Count(r, "enter") = 2
       /\ \A e \in Positions(r, "enter") : log[r][e].total = 3
       /\ Count(r, "chat") = 6
       /\ Count(r, "finished") = 1

\* the last position before i at which a stage returned its text, 0 if none
LastLeave(r, i) == SetMax({0} \cup {l \in Positions(r, "leave") : l < i})

\* C9: the stages execute in pipeline order, each on the text the stage
\* before it returned (the first on the document); a rewrite stage with no
\* enabled task is skipped: it issues no generation call, saves no step,
\* takes no step number and leaves the text as it is; no other stage is
\* skipped.
C9_StagesInOrder ==
    \A r \in Runs :
       /\ \A e \in Positions(r, "enter") :
             LET op == log[r][e].op
                 before == {d \in Positions(r, "enter") : d < e}
             IN  /\ \A d \in before : log[r][d].op < op
                 /\ Cardinality({l \in Positions(r, "leave") : l < e})
                       = Cardinality(before)
                 /\ log[r][e].input = IF LastLeave(r, e) = 0 THEN scenario.doc
                                      ELSE log[r][LastLeave(r, e)].result
                 /\ ~NoTaskEnabled(op)
                 /\ \A k \in 1..(op - 1) :
                       NoTaskEnabled(k) \/ \E d \in before : log[r][d].op = k
       /\ \A l \in Positions(r, "leave") :
             /\ log[r][l].number = 1 + Cardinality({m \in Positions(r, "leave") : m < l})
             /\ \E e \in Positions(r, "enter") : e < l /\ log[r][e].op = log[r][l].op
       /\ \A i \in Positions(r, "chat") : ~NoTaskEnabled(log[r][i].op)
       /\ \A i \in Positions(r, "step_saved") :
             i > 1 /\ log[r][i - 1].ev \in {"leave", "part"}

\* a pipeline whose first stage is a rewrite with no enabled task has
\* completed: its second and third stages took the step numbers 1 and 2
C9_Witness ==
    \E r \in Runs :
       /\ Count(r, "finished") = 1
       /\ Len(pipeline) = 3
       /\ NoTaskEnabled(1)
       /\ {log[r][e].op : e \in Positions(r, "enter")} = {2, 3}
       /\ {log[r][l].number : l \in Positions(r, "leave")} = {1, 2}

\* C10: processing_finished is emitted at most once by an invocation, as
\* its last signal, after every stage has completed all its chunks with no
\* cancel check failed and the output file has been written; when the final
\* write fails, one processing_error is emitted for it, processing_finished
\* is not emitted, and the invocation ends with is_running false.
C10_FinishedOnceAfterWrite ==
    \A r \in Runs :
       /\ Count(r, "finished") <= 1
       /\ \A i \in Positions(r, "finished") :
             /\ i = Len(log[r])
             /\ i > 1
             /\ log[r][i - 1].ev = "write"
             /\ log[r][i - 1].file = <<log[r][i].path>>
             /\ log[r][i - 1].file \in DOMAIN files
             /\ AllStagesProcessed(r)
             /\ Completed(r)
             /\ ErrorsFrom(r, {"write"}) = {}
       /\ ErrorsFrom(r, {"write"}) # {} =>
             /\ Cardinality(ErrorsFrom(r, {"write"})) = 1
             /\ Count(r, "finished") = 0
             /\ Count(r, "write") = 0
             /\ task[r].pc = "done"
             /\ task[r].exit_flag = FALSE

\* one invocation has executed a stage and emitted processing_finished, and
\* the final write of another one has failed
C10_Witness ==
    \E r, q \in Runs :
       /\ Count(r, "finished") = 1
       /\ Count(r, "enter") >= 1
       /\ ErrorsFrom(q, {"write"}) # {}

(***************************************************************************)
(* C11 - C12: snapshots and step artifacts                                 *)
(***************************************************************************)
\* a save_step call at position i of the log of invocation r: the step_saved
\* signal of a write, or the processing_error of a write that failed
SaveAt(r, i) ==
    /\ i \in DOMAIN log[r]
    /\ \/ log[r][i].ev = "step_saved"
       \/ log[r][i].ev = "error" /\ log[r][i].src = "save"

\* C11: in every stage, translation and rewrite alike, the completion of a
\* chunk is followed by the saving of a snapshot of the results so far,
\* before anything else happens in the stage.
C11_SnapshotAfterEveryChunk ==
    \A r \in Runs : \A i \in Positions(r, "part") : SaveAt(r, i + 1)

\* C12: a save_step whose write fails emits one processing_error and no
\* step_saved, and processing goes on: an invocation that is not cancelled
\* still processes every chunk of every stage and, when its final write
\* succeeds, emits processing_finished.  step_saved is emitted only for a
\* file that was written.
C12_SaveFailureDoesNotStop ==
    \A r \in Runs :
       /\ \A i \in ErrorsFrom(r, {"save"}) :
             /\ i > 1
             /\ log[r][i - 1].ev \in {"part", "leave"}
             /\ ~SaveAt(r, i + 1)
       /\ \A i \in Positions(r, "step_saved") :
             /\ i > 1
             /\ log[r][i - 1].ev \in {"part", "leave"}
             /\ log[r][i].file \in DOMAIN files
       /\ (ErrorsFrom(r, {"save"}) # {} /\ Completed(r)) =>
             /\ AllStagesProcessed(r)
             /\ \A e \in Positions(r, "enter") :
                   Cardinality(ChatsOf(r, log[r][e].op)) = log[r][e].total
             /\ ErrorsFrom(r, {"write"}) = {} => Count(r, "finished") = 1

\* the snapshot of a chunk that is not the last one could not be saved, and
\* the invocation went on to emit processing_finished
C12_Witness ==
    \E r \in Runs :
       /\ Count(r, "finished") = 1
       /\ \E i \in ErrorsFrom(r, {"save"}) :
             /\ log[r][i - 1].ev = "part"
             /\ \E j \in Positions(r, "chat") : j > i

(***************************************************************************)
(* TextChunker.chunk_text on its own, one loop iteration at a time         *)
(***************************************************************************)
\* the longest document, the largest max_chars and the largest overlap tried
MaxTextLen == 4

MaxChunkChars == 3

MaxOverlap == 2

\* a letter, the three kinds of whitespace and punctuation the patterns of
\* chunk_text tell apart
Alphabet == {"a", " ", ".", "\n", "\""}

Texts == UNION {[1..n -> Alphabet] : n \in 0..MaxTextLen}

\* the variables of the processor, which a call of chunk_text or
\* deduplicate_paragraphs does not touch
processor_vars ==
    <<is_running, output_base_path, files, task, log, halted, stopped, early,
      faults, scenario, service>>

\* a processor that stays as __init__ left it
ProcessorIdle ==
    /\ ProcessorInit
    /\ scenario = CHOOSE s \in Scenarios : TRUE
    /\ service = "echo"

\* the largest number of tokens put together into one text
MaxTokens == 4

\* a letter, a space, a sentence end, a quoted sentence end and a paragraph
\* break: what the three patterns and the search for a space look for
Tokens ==
    {<<"a">>, <<" ">>, <<".", " ">>, <<".", "\"", " ">>, <<"\n", "\n">>}

TokenTexts ==
    {Join(t, << >>) : t \in UNION {[1..n -> Tokens] : n \in 1..MaxTokens}}

\* documents longer than the windows of chunk_text: a space near the start
\* of a long word, and a sentence end as far after the start as the search
\* text reaches, or one character further
LongTexts ==
    {<<"a", " ", "a", "a">> \o Repeat("a", SpaceWindow),
     Repeat("a", LookAhead) \o <<".", " ", "b">>,
     Repeat("a", LookAhead + 1) \o <<".", " ", "b">>}

\* "Sentence one. Sentence two. Sentence three."
SentenceExample ==
    <<"S", "e", "n", "t", "e", "n", "c", "e", " ", "o", "n",
      "e", ".", " ", "S", "e", "n", "t", "e", "n", "c", "e",
      " ", "t", "w", "o", ".", " ", "S", "e", "n", "t", "e",
      "n", "c", "e", " ", "t", "h", "r", "e", "e", ".">>

\* chunk_text(text, max_chars, overlap) at its first line; spans records the
\* [position, chunk_end) of each chunk, which the code does not keep
ChunkJob(text, max_chars, overlap) ==
    [kind |-> "chunk", text |-> text, max_chars |-> max_chars,
     overlap |-> overlap, pc |-> "start", position |-> 0,
     previous_end |-> << >>, chunks |-> << >>, spans |-> << >>]

ChunkJobs ==
    {ChunkJob(text, max_chars, overlap) :
        text \in Texts \cup TokenTexts \cup LongTexts,
        max_chars \in {WholeFile} \cup 1..MaxChunkChars,
        overlap \in 0..MaxOverlap}
    \cup {ChunkJob(SentenceExample, 20, 5)}

ChunkInit == ProcessorIdle /\ work \in ChunkJobs

\* a variant of ChunkStart that trims the text it returns as one chunk
ChunkStartTrimmed ==
    /\ work.kind = "chunk"
    /\ work.pc = "start"
    /\ work' = IF work.max_chars = WholeFile \/ Len(work.text) <= work.max_chars
               THEN [work EXCEPT !.pc = "done",
                                 !.chunks = << [chunk |-> Strip(work.text),
                                                context |-> << >>,
                                                is_first |-> TRUE] >>,
                                 !.spans = << <<0, Len(work.text)>> >>]
               ELSE [work EXCEPT !.pc = "loop"]
    /\ UNCHANGED processor_vars

\* lines 18-29: the whole text as one chunk, or the loop is entered
ChunkStart ==
    /\ work.kind = "chunk"
    /\ work.pc = "start"
    /\ work' = IF work.max_chars = WholeFile \/ Len(work.text) <= work.max_chars
               THEN [work EXCEPT !.pc = "done",
                                 !.chunks = << [chunk |-> work.text, context |-> << >>,
                                                is_first |-> TRUE] >>,
                                 !.spans = << <<0, Len(work.text)>> >>]
               ELSE [work EXCEPT !.pc = "loop"]
    /\ UNCHANGED processor_vars

\* a variant of ChunkIteration that steps back by the overlap, so that the
\* next chunk starts inside the one just cut
ChunkIterationStepBack ==
    /\ work.kind = "chunk"
    /\ work.pc = "loop"
    /\ work.position < Len(work.text)
    /\ LET chunk_end == ChunkEnd(work.text, work.max_chars, work.position)
           piece == Strip(Slice(work.text, work.position, chunk_end))
       IN  work' = [work EXCEPT
                       !.chunks = Append(@, [chunk |-> piece,
                                             context |-> work.previous_end,
                                             is_first |-> (work.position = 0)]),
                       !.spans = Append(@, <<work.position, chunk_end>>),
                       !.previous_end = PreviousEnd(piece, work.overlap),
                       !.position = Max(chunk_end - work.overlap, work.position + 1)]
    /\ UNCHANGED processor_vars

\* lines 31-82: one iteration of the while loop
ChunkIteration ==
    /\ work.kind = "chunk"
    /\ work.pc = "loop"
    /\ work.position < Len(work.text)
    /\ LET chunk_end == ChunkEnd(work.text, work.max_chars, work.position)
           piece == Strip(Slice(work.text, work.position, chunk_end))
       IN  work' = [work EXCEPT
                       !.chunks = Append(@, [chunk |-> piece,
                                             context |-> work.previous_end,
                                             is_first |-> (work.position = 0)]),
                       !.spans = Append(@, <<work.position, chunk_end>>),
                       !.previous_end = PreviousEnd(piece, work.overlap),
                       !.position = chunk_end]
    /\ UNCHANGED processor_vars

\* line 84: the loop has reached the end of the text
ChunkReturn ==
    /\ work.kind = "chunk"
    /\ work.pc = "loop"
    /\ work.position >= Len(work.text)
    /\ work' = [work EXCEPT !.pc = "done"]
    /\ UNCHANGED processor_vars

ChunkNext == ChunkStart \/ ChunkIteration \/ ChunkReturn

ChunkSpec == ChunkInit /\ [][ChunkNext]_vars

\* the list returned is the one the stages get from chunk_text
ChunkOK ==
    work.pc = "done" =>
       work.chunks = chunk_text(work.text, work.max_chars, work.overlap)

\* C13: every chunk after the first carries as context the last
\* min(overlap, length of the previous trimmed chunk) characters of the
\* previous trimmed chunk, never more than that many characters, and with
\* an overlap of 0 the context of every later chunk is empty
C13_ContextIsOverlapTail ==
    work.kind = "chunk" =>
       \A k \in 2..Len(work.chunks) :
          LET prev == work.chunks[k - 1].chunk
              n == Min(work.overlap, Len(prev))
          IN  /\ work.chunks[k].context = Slice(prev, Len(prev) - n, Len(prev))
              /\ Len(work.chunks[k].context) <= n
              /\ work.overlap = 0 => work.chunks[k].context = << >>

\* the untrimmed text of the k-th span
SpanText(k) == Slice(work.text, work.spans[k][1], work.spans[k][2])

\* C14: for max_chars >= 1 the untrimmed spans [position, chunk_end) start
\* at 0, each starts where the one before it ended, none reaches past the
\* end of the document, each chunk is its span trimmed, and once the call
\* has returned the last span ends at the end of the document and the spans
\* joined together are the document
C14_SpansTileTheDocument ==
    (work.kind = "chunk" /\ work.max_chars >= 1) =>
       /\ Len(work.spans) = Len(work.chunks)
       /\ \A k \in 1..Len(work.spans) :
             /\ work.spans[k][1] = IF k = 1 THEN 0 ELSE work.spans[k - 1][2]
             /\ work.spans[k][1] <= work.spans[k][2]
             /\ work.spans[k][2] <= Len(work.text)
             /\ Strip(work.chunks[k].chunk) = Strip(SpanText(k))
       /\ work.pc = "done" =>
             /\ work.spans # << >>
             /\ work.spans[Len(work.spans)][2] = Len(work.text)
             /\ Join([k \in 1..Len(work.spans) |-> SpanText(k)], << >>) = work.text

\* a document cut into more than one chunk has been returned
C14_Witness ==
    /\ work.kind = "chunk"
    /\ work.max_chars >= 1
    /\ work.pc = "done"
    /\ Len(work.spans) >= 3
    /\ \E k \in 1..Len(work.spans) : work.chunks[k].chunk # SpanText(k)

\* C15 as stated: for max_chars >= 1 no chunk has an end at or before its
\* start and there are at most as many chunks as the document has characters
C15_NoEmptySpan ==
    (work.kind = "chunk" /\ work.max_chars >= 1) =>
       /\ \A k \in 1..Len(work.spans) : work.spans[k][1] < work.spans[k][2]
       /\ Len(work.chunks) <= Len(work.text)

\* C15: for max_chars >= 1 the loop of chunk_text comes to an end: in every
\* iteration the cut lies strictly after position; for a document that is
\* not empty no chunk has an end at or before its start and there are at
\* most as many chunks as characters; the empty document gives the one
\* chunk [0, 0)
C15_EveryCutAdvances ==
    (work.kind = "chunk" /\ work.max_chars >= 1) =>
       /\ (work.pc = "loop" /\ work.position < Len(work.text)) =>
             ChunkEnd(work.text, work.max_chars, work.position) > work.position
       /\ \A k \in 1..Len(work.spans) :
             /\ work.text # << >> => work.spans[k][1] < work.spans[k][2]
             /\ work.text = << >> => work.spans[k] = <<0, 0>>
       /\ Len(work.chunks) <= Max(1, Len(work.text))
       /\ work.position <= Len(work.text)

\* the loop has cut a document into as many chunks as it has characters
C15_Witness ==
    /\ work.kind = "chunk"
    /\ work.max_chars >= 1
    /\ work.pc = "done"
    /\ Len(work.text) >= 3
    /\ Len(work.chunks) = Len(work.text)

\* C16: with max_chars = -1, or with a document of at most max_chars
\* characters (the empty document included), chunk_text returns exactly one
\* chunk: its text is the document as it is, is_first is true and the
\* context is empty, so a stage, which sends one request per chunk, sends one
C16_WholeDocumentIsOneChunk ==
    (/\ work.kind = "chunk"
     /\ work.pc = "done"
     /\ work.max_chars = WholeFile \/ Len(work.text) <= work.max_chars) =>
       /\ work.chunks = << [chunk |-> work.text, context |-> << >>,
                            is_first |-> TRUE] >>
       /\ Len(chunk_text(work.text, work.max_chars, work.overlap)) = 1

\* chunk_text has returned a document longer than any max_chars tried, with
\* whitespace at both ends, under max_chars = -1
C16_Witness ==
    /\ work.kind = "chunk"
    /\ work.pc = "done"
    /\ work.max_chars = WholeFile
    /\ Len(work.text) > MaxChunkChars
    /\ IsSpace(work.text[1])
    /\ IsSpace(work.text[Len(work.text)])
    /\ Len(work.chunks) = 1

(***************************************************************************)
(* OllamaProcessor.deduplicate_paragraphs on its own, one paragraph at a   *)
(* time, called a second time on its own result                            *)
(***************************************************************************)
\* the largest number of pieces joined into one text
MaxPieces == 4

\* the paragraph of the scenario of two adjacent chunks
Quiet ==
    <<"T", "h", "e", " ", "c", "i", "t", "y", " ", "w", "a", "s", " ", "q", "u", "i", "e", "t", ".">>

\* what the outputs of chunks are made of: an empty piece, the same words in
\* another casing, with other whitespace around and between them, and a
\* sentence
Pieces ==
    {<< >>, <<"a">>, <<"A">>, <<" ", "a", "\n">>, <<"a", " ", "b">>,
     <<"a", " ", "\n", "b">>, Quiet}

\* '\n\n'.join(...) of up to MaxPieces pieces, as a stage assembles the
\* outputs of its chunks (lines 322 and 468), and every short text
AssembledTexts ==
    {Join(p, BlankLine) : p \in UNION {[1..n -> Pieces] : n \in 1..MaxPieces}}
    \cup Texts

\* deduplicate_paragraphs(text) at its first line; input is the text of the
\* first call and results the values returned so far
DedupJobs ==
    {[kind |-> "dedup", input |-> t, text |-> t, pc |-> "start",
      paragraphs |-> << >>, k |-> 1, seen |-> {}, deduplicated |-> << >>,
      results |-> << >>] : t \in AssembledTexts}

DedupInit == ProcessorIdle /\ work \in DedupJobs

\* lines 229-231
DedupStart ==
    /\ work.kind = "dedup"
    /\ work.pc = "start"
    /\ work' = [work EXCEPT !.pc = "loop",
                            !.paragraphs = SplitParagraphs(work.text),
                            !.k = 1, !.seen = {}, !.deduplicated = << >>]
    /\ UNCHANGED processor_vars

\* a variant of DedupIteration that forgets the forms it has seen once it
\* has dropped a paragraph
DedupIterationForgetful ==
    /\ work.kind = "dedup"
    /\ work.pc = "loop"
    /\ work.k <= Len(work.paragraphs)
    /\ LET para_stripped == Strip(work.paragraphs[work.k])
           para_normalized == Normalize(para_stripped)
       IN  work' = IF para_stripped = << >>
                   THEN [work EXCEPT !.k = @ + 1]
                   ELSE IF para_normalized \notin work.seen
                   THEN [work EXCEPT !.k = @ + 1,
                                     !.seen = @ \cup {para_normalized},
                                     !.deduplicated = Append(@, para_stripped)]
                   ELSE [work EXCEPT !.k = @ + 1, !.seen = {}]
    /\ UNCHANGED processor_vars

\* a variant of DedupIteration that keeps the normalized form of a paragraph
DedupIterationNormalized ==
    /\ work.kind = "dedup"
    /\ work.pc = "loop"
    /\ work.k <= Len(work.paragraphs)
    /\ LET para_stripped == Strip(work.paragraphs[work.k])
           para_normalized == Normalize(para_stripped)
       IN  work' = IF para_stripped = << >>
                   THEN [work EXCEPT !.k = @ + 1]
                   ELSE IF para_normalized \notin work.seen
                   THEN [work EXCEPT !.k = @ + 1,
                                     !.seen = @ \cup {para_normalized},
                                     !.deduplicated = Append(@, para_normalized)]
                   ELSE [work EXCEPT !.k = @ + 1]
    /\ UNCHANGED processor_vars

\* a variant of DedupIteration that remembers only the form of the paragraph
\* it kept last
DedupIterationLastOnly ==
    /\ work.kind = "dedup"
    /\ work.pc = "loop"
    /\ work.k <= Len(work.paragraphs)
    /\ LET para_stripped == Strip(work.paragraphs[work.k])
           para_normalized == Normalize(para_stripped)
       IN  work' = IF para_stripped = << >>
                   THEN [work EXCEPT !.k = @ + 1]
                   ELSE IF para_normalized \notin work.seen
                   THEN [work EXCEPT !.k = @ + 1,
                                     !.seen = {para_normalized},
                                     !.deduplicated = Append(@, para_stripped)]
                   ELSE [work EXCEPT !.k = @ + 1]
    /\ UNCHANGED processor_vars

\* lines 233-242: one iteration of the for loop
DedupIteration ==
    /\ work.kind = "dedup"
    /\ work.pc = "loop"
    /\ work.k <= Len(work.paragraphs)
    /\ LET para_stripped == Strip(work.paragraphs[work.k])
           para_normalized == Normalize(para_stripped)
       IN  work' = IF para_stripped = << >>
                   THEN [work EXCEPT !.k = @ + 1]
                   ELSE IF para_normalized \notin work.seen
                   THEN [work EXCEPT !.k = @ + 1,
                                     !.seen = @ \cup {para_normalized},
                                     !.deduplicated = Append(@, para_stripped)]
                   ELSE [work EXCEPT !.k = @ + 1]
    /\ UNCHANGED processor_vars

\* line 244
DedupReturn ==
    /\ work.kind = "dedup"
    /\ work.pc = "loop"
    /\ work.k > Len(work.paragraphs)
    /\ work' = [work EXCEPT !.pc = "returned",
                            !.results = Append(@, Join(work.deduplicated, BlankLine))]
    /\ UNCHANGED processor_vars

\* deduplicate_paragraphs is called again, on what it has just returned
DedupAgain ==
    /\ work.kind = "dedup"
    /\ work.pc = "returned"
    /\ Len(work.results) = 1
    /\ work' = [work EXCEPT !.pc = "start", !.text = work.results[1]]
    /\ UNCHANGED processor_vars

DedupNext == DedupStart \/ DedupIteration \/ DedupReturn \/ DedupAgain

DedupSpec == DedupInit /\ [][DedupNext]_vars

\* the value returned is the one the stages get from deduplicate_paragraphs
DedupOK ==
    (work.kind = "dedup" /\ work.pc = "returned") =>
       work.results[Len(work.results)] = deduplicate_paragraphs(work.text)

\* the paragraphs of the input of the first call
InputParagraphs == SplitParagraphs(work.input)

\* the normalized form of each paragraph of a list
NormalForms(paragraphs) ==
    [i \in 1..Len(paragraphs) |-> Normalize(Strip(paragraphs[i]))]

\* the normalized form of the i-th paragraph of the input of the first call
NormalForm(i) == NormalForms(InputParagraphs)[i]

\* no two paragraphs of the input have the same normalized form
NoRepeats ==
    \A i, j \in DOMAIN SplitParagraphs(work.input) :
       i # j => NormalForm(i) # NormalForm(j)

\* C17: what deduplicate_paragraphs returns for its own result is that result
C17_DedupIdempotent ==
    (work.kind = "dedup" /\ Len(work.results) = 2) =>
       work.results[2] = work.results[1]

\* the second call has returned, and the first had dropped a paragraph that
\* was there three times
C17_Witness ==
    /\ work.kind = "dedup"
    /\ Len(work.results) = 2
    /\ work.results[1] # work.input
    /\ \E i, j, k \in DOMAIN SplitParagraphs(work.input) :
          /\ i < j /\ j < k
          /\ NormalForm(i) # << >>
          /\ NormalForm(i) = NormalForm(j) /\ NormalForm(j) = NormalForm(k)

\* C18 as stated: a text in which no two paragraphs have the same normalized
\* form is returned unchanged
C18_NoRepeatsUnchanged ==
    (work.kind = "dedup" /\ work.results # << >> /\ NoRepeats) =>
       work.results[1] = work.input

\* every paragraph of the input has a non-whitespace character and no
\* whitespace at either end
ParagraphsTrimmed ==
    \A i \in DOMAIN SplitParagraphs(work.input) :
       LET para == SplitParagraphs(work.input)[i]
       IN  para # << >> /\ Strip(para) = para

\* C18: a text in which no two paragraphs have the same normalized form, and
\* in which every paragraph is non-empty and has no whitespace at either end,
\* is returned unchanged
C18_TrimmedNoRepeatsUnchanged ==
    (work.kind = "dedup" /\ work.results # << >> /\ NoRepeats /\ ParagraphsTrimmed) =>
       work.results[1] = work.input

\* a text of three trimmed paragraphs with different normalized forms, one
\* of them with whitespace inside and one with a capital, has been returned
C18_Witness ==
    /\ work.kind = "dedup"
    /\ work.results # << >>
    /\ NoRepeats
    /\ ParagraphsTrimmed
    /\ Len(SplitParagraphs(work.input)) >= 3
    /\ \E i \in DOMAIN SplitParagraphs(work.input) :
          SplitParagraphs(work.input)[i] = <<"a", " ", "\n", "b">>
    /\ \E i \in DOMAIN SplitParagraphs(work.input) :
          SplitParagraphs(work.input)[i] = Quiet
    /\ work.results[1] = work.input

\* the indices, in order, of the paragraphs of the input that are not empty
\* and whose normalized form no earlier paragraph has
FirstOccurrences ==
    LET forms == NormalForms(InputParagraphs)
        first == {i \in DOMAIN forms :
                     /\ forms[i] # << >>
                     /\ \A j \in 1..(i - 1) : forms[j] # forms[i]}
    IN  SelectSeq([i \in 1..Len(forms) |-> i], LAMBDA i : i \in first)

\* C19: the paragraphs returned are, in the order of the input, the first
\* paragraph of each non-empty normalized form, trimmed of the whitespace
\* around it and otherwise as it was written, so no two paragraphs returned
\* have the same normalized form; when the joined outputs of the chunks
\* contain the paragraph "The city was quiet." it is returned exactly once
C19_FirstOccurrencesInOrder ==
    (work.kind = "dedup" /\ work.results # << >>) =>
       LET paragraphs == InputParagraphs
           first == FirstOccurrences
           returned == SplitParagraphs(work.results[1])
           kept == IF Len(work.results) = 1 /\ work.pc = "returned"
                   THEN work.deduplicated
                   ELSE returned
           forms == NormalForms(kept)
       IN  /\ work.results[1] =
                 Join([k \in 1..Len(first) |-> Strip(paragraphs[first[k]])], BlankLine)
           /\ first # << >> =>
                 /\ Len(kept) = Len(first)
                 /\ \A a, b \in DOMAIN kept : a # b => forms[a] # forms[b]
           /\ (\E i \in DOMAIN paragraphs : Strip(paragraphs[i]) = Quiet) =>
                 Cardinality({a \in DOMAIN returned : returned[a] = Quiet}) = 1

\* the outputs of two chunks, the first ending and the second starting with
\* "The city was quiet.", and the second ending with the first paragraph of
\* the first in another casing, have been joined and deduplicated
C19_Witness ==
    /\ work.kind = "dedup"
    /\ work.results # << >>
    /\ work.input = Join(<< <<"A">>, Quiet, Quiet, <<"a">> >>, BlankLine)
    /\ work.results[1] = Join(<< <<"A">>, Quiet >>, BlankLine)

(***************************************************************************)
(* OllamaProcessor.execute_combined_operation called on its own, with the  *)
(* list of enabled tasks as its caller passes it                           *)
(***************************************************************************)
\* the settings of a rewrite tab, cutting into chunks or not
CombinedSettings == {Rewrite(2, 1, SubOps, {}), Rewrite(WholeFile, 0, SubOps, {})}

\* the lists of enabled tasks a caller may pass
EnabledLists == {<< >>, <<"improve_flow">>, SubOps}

\* execute_combined_operation(text, op_settings, enabled_sub_ops) at its
\* first line; events records what the call emits and requests
CombinedJobs ==
    [kind : {"combined"}, text : Texts, op_settings : CombinedSettings,
     enabled_sub_ops : EnabledLists, pc : {"call"}, chunks : {<< >>},
     idx : {0}, parts : {<< >>}, events : {<< >>}, result : {<< >>}]

\* the processor as __init__ left it, but for is_running, which the caller
\* of the executor may have set (line 486)
CombinedInit ==
    /\ is_running \in BOOLEAN
    /\ output_base_path = None
    /\ files = [n \in {} |-> << >>]
    /\ task = [r \in Runs |-> IdleFrame]
    /\ log = [r \in Runs |-> << >>]
    /\ halted = {}
    /\ stopped = {}
    /\ early = [r \in Runs |-> {}]
    /\ faults = 0
    /\ scenario = CHOOSE s \in Scenarios : s.failures # {}
    /\ service \in Services
    /\ work \in CombinedJobs

\* a variant of CombinedCall without the early return of lines 418-419
CombinedCallNoGuard ==
    /\ work.kind = "combined"
    /\ work.pc = "call"
    /\ LET chunks == chunk_text(work.text, work.op_settings.chunk_size,
                                work.op_settings.overlap)
       IN  work' = [work EXCEPT
                       !.pc = "chunk", !.chunks = chunks, !.idx = 1,
                       !.events = << [ev |-> "chunked", total |-> Len(chunks)],
                                     [ev |-> "status", msg |-> "combined"] >>]
    /\ UNCHANGED processor_vars

\* lines 413-444: the early return, or the text is cut into chunks
CombinedCall ==
    /\ work.kind = "combined"
    /\ work.pc = "call"
    /\ LET chunks == chunk_text(work.text, work.op_settings.chunk_size,
                                work.op_settings.overlap)
       IN  work' = IF work.enabled_sub_ops = << >>
                   THEN [work EXCEPT !.pc = "returned", !.result = work.text]
                   ELSE [work EXCEPT
                            !.pc = "chunk", !.chunks = chunks, !.idx = 1,
                            !.events = << [ev |-> "chunked", total |-> Len(chunks)],
                                          [ev |-> "status", msg |-> "combined"] >>]
    /\ UNCHANGED processor_vars

\* lines 446-466: one iteration of the loop over the chunks, with the
\* generation call and its outcome
CombinedIteration ==
    /\ work.kind = "combined"
    /\ work.pc = "chunk"
    /\ work.idx <= Len(work.chunks)
    /\ LET c == work.chunks[work.idx]
           prompt == build_combined_prompt(work.op_settings, work.enabled_sub_ops)
           request == [pair |-> "combined",
                       system_prompt |-> prompt.system,
                       user_prompt |-> prompt.user,
                       chunk |-> c.chunk,
                       context_snippet |-> << >>,
                       temperature |-> "op_settings"]
       IN  IF CancelObserved
           THEN work' = [work EXCEPT !.pc = "join"]
           ELSE IF FormatRaises(prompt.fields, CombinedArgs)
           THEN work' = [work EXCEPT !.pc = "raised"]
           ELSE \E outcome \in
                   { [kind |-> "ok", content |-> Reply(service, request)] }
                   \cup { [kind |-> k, content |-> << >>] : k \in scenario.failures } :
                   LET got == process_with_llm(c.chunk, outcome)
                   IN  work' = [work EXCEPT
                                   !.idx = @ + 1,
                                   !.parts = Append(@, got.result),
                                   !.events = @ \o << [ev |-> "chat", idx |-> work.idx],
                                                      [ev |-> "progress",
                                                       current |-> work.idx,
                                                       total |-> Len(work.chunks)] >>]
    /\ UNCHANGED processor_vars

\* lines 468-473: the parts are joined and deduplicated
CombinedJoin ==
    /\ work.kind = "combined"
    /\ \/ work.pc = "join"
       \/ work.pc = "chunk" /\ work.idx > Len(work.chunks)
    /\ work' = [work EXCEPT
                   !.pc = "returned",
                   !.result = deduplicate_paragraphs(Join(work.parts, BlankLine))]
    /\ UNCHANGED processor_vars

CombinedNext == CombinedCall \/ CombinedIteration \/ CombinedJoin

CombinedSpec == CombinedInit /\ [][CombinedNext]_vars

\* C20: with no enabled task build_combined_prompt returns an empty system
\* prompt and an empty user prompt, and execute_combined_operation returns
\* at once: its result is its input text, nothing has been cut into chunks,
\* no generation call has been made and no progress has been emitted
C20_NoTaskNoWork ==
    (work.kind = "combined" /\ work.enabled_sub_ops = << >>) =>
       /\ build_combined_prompt(work.op_settings, work.enabled_sub_ops).system = << >>
       /\ build_combined_prompt(work.op_settings, work.enabled_sub_ops).user = << >>
       /\ work.pc \in {"call", "returned"}
       /\ work.pc = "returned" => work.result = work.text
       /\ work.chunks = << >>
       /\ work.events = << >>

\* the call has returned, with no task enabled, a text that is longer than
\* a chunk and that deduplication would have changed, while is_running was
\* set
C20_Witness ==
    /\ work.kind = "combined"
    /\ work.enabled_sub_ops = << >>
    /\ work.pc = "returned"
    /\ is_running
    /\ work.op_settings.chunk_size # WholeFile
    /\ Len(work.text) > work.op_settings.chunk_size
    /\ deduplicate_paragraphs(work.text) # work.text
    /\ work.result = work.text

(***************************************************************************)
(* The failure kinds of process_with_llm                                   *)
(***************************************************************************)
\* the heading of the error_msg each except clause emits (lines 200, 206,
\* 212 and 218); the clause of line 217 serves both the Exception raised at
\* line 173 for an unreadable response and every other exception
ErrorLabel(kind) ==
    CASE kind = "timeout" -> "Timeout"
      [] kind = "connection" -> "Connection Error"
      [] kind = "response_error" -> "Ollama Error"
      [] OTHER -> "Unexpected Error"

\* C21: the kind of a failed generation call can be read from what the call
\* surfaces: no other kind has the tag its placeholder starts with, and no
\* other kind has the heading of its error notification
C21_FailureKindsDistinct ==
    \A r \in Runs : \A i \in Positions(r, "part") :
       (i > 1 /\ log[r][i - 1].ev = "error" /\ log[r][i - 1].src \in FailureKinds) =>
          \A kind \in FailureKinds :
             (\/ StartsWith(log[r][i].result, PlaceholderTag(kind))
              \/ ErrorLabel(kind) = ErrorLabel(log[r][i - 1].src)) =>
                kind = log[r][i - 1].src

(***************************************************************************)
(* The guard of process_pipeline                                           *)
(***************************************************************************)
\* what a step does with a call that is refused, or was refused before
C22_Step ==
    \A r \in Runs :
       /\ (task[r].pc # "refused" /\ task'[r].pc = "refused") =>
             /\ is_running /\ is_running'
             /\ output_base_path' = output_base_path
             /\ files' = files
             /\ log'[r] = << [ev |-> "error", src |-> "already_running"] >>
             /\ \A q \in Runs \ {r} : task'[q] = task[q] /\ log'[q] = log[q]
       /\ task[r].pc = "refused" =>
             task'[r] = task[r] /\ log'[r] = log[r]

\* C22: a call of process_pipeline made while is_running is true emits one
\* processing_error and nothing else, then and ever after: no probe, no
\* read, no stage and no write; the step that refuses it leaves is_running
\* true, and leaves output_base_path, the files and the frame and the events
\* of every other call as they were
C22_RefusedCallChangesNothing == [][C22_Step]_vars

\* a second call was refused while the first was suspended in a generation
\* call, and the first has gone on to finish, saving its steps under its own
\* path
C22_Witness ==
    /\ MaxRuns >= 2
    /\ task[2].pc = "refused"
    /\ Count(1, "finished") = 1
    /\ Count(1, "chat") >= 2
    /\ output_base_path = BatchPaths[1]
    /\ ~scenario.same_file

(***************************************************************************)
(* A batch of files after stop_processing                                  *)
(***************************************************************************)
\* the loop over the input files (main.py, lines 788-817) calls
\* process_pipeline for file q when the call for file q - 1 has returned
C23_Step ==
    \A q \in Runs \ {1} :
       (/\ task[q].pc = "idle"
        /\ task[q - 1].pc \in EndPcs
        /\ (q - 1) \in stopped) =>
          task'[q].pc = "idle"

\* C23: once stop_processing has been called while a file of a batch was
\* being processed, the call for the next file is never made: no
\* connection probe, no read and no generation call for a later file
C23_NoFileStartedAfterStop == [][C23_Step]_vars

(***************************************************************************)
(* Where chunk_text cuts                                                   *)
(***************************************************************************)
\* the elements of a list
Range(s) == {s[i] : i \in DOMAIN s}

\* line 32: the cut before any boundary is looked for
NaiveCut(text, max_chars, position) == Min(position + max_chars, Len(text))

\* lines 35-36: the start of the search text, and the search text
SearchStart(text, max_chars, position) ==
    Max(position, NaiveCut(text, max_chars, position) - LookBehind)

SearchText(text, max_chars, position) ==
    Slice(text, SearchStart(text, max_chars, position),
          NaiveCut(text, max_chars, position) + LookAhead)

\* lines 39-48: the positions after a sentence end, of either pattern, found
\* in the search text
SentenceCandidates(text, max_chars, position) ==
    Range(Breaks(SentenceEnds(SearchText(text, max_chars, position), 0),
                 SearchStart(text, max_chars, position), position,
                 NaiveCut(text, max_chars, position)))
    \cup Range(Breaks(QuotedSentenceEnds(SearchText(text, max_chars, position), 0),
                      SearchStart(text, max_chars, position), position,
                      NaiveCut(text, max_chars, position)))

\* lines 56-60: the positions after a paragraph break found in the search text
ParagraphCandidates(text, max_chars, position) ==
    Range(Breaks(ParagraphEnds(SearchText(text, max_chars, position), 0),
                 SearchStart(text, max_chars, position), position,
                 NaiveCut(text, max_chars, position)))

\* the latest of the candidates that does not exceed the naive cut, or the
\* earliest of them if none qualifies
LatestOrEarliest(candidates, naive) ==
    IF \E c \in candidates : c <= naive
    THEN SetMax({c \in candidates : c <= naive})
    ELSE SetMin(candidates)

\* the k-th chunk was cut in the loop, with its naive cut before the end of
\* the text, so that a boundary was looked for (line 34)
BoundarySought(k) ==
    /\ work.kind = "chunk"
    /\ work.max_chars >= 1
    /\ Len(work.text) > work.max_chars
    /\ k \in DOMAIN work.spans
    /\ NaiveCut(work.text, work.max_chars, work.spans[k][1]) < Len(work.text)

\* C24: where the search text of a cut holds sentence ends, the cut is the
\* latest of them that does not exceed the naive cut, or the earliest of
\* them if none qualifies
C24_LatestQualifyingElseEarliest ==
    work.kind = "chunk" =>
       \A k \in DOMAIN work.spans :
          LET position == work.spans[k][1]
              candidates == SentenceCandidates(work.text, work.max_chars, position)
          IN  (BoundarySought(k) /\ candidates # {}) =>
                 work.spans[k][2] =
                    LatestOrEarliest(candidates,
                                     NaiveCut(work.text, work.max_chars, position))

\* the spaces after the start of a chunk and within the SpaceWindow
\* characters before its naive cut
SpacesBefore(text, max_chars, position) ==
    LET naive == NaiveCut(text, max_chars, position)
    IN  {i \in Max(0, naive - SpaceWindow)..(naive - 1) :
            i > position /\ At(text, i) = " "}

\* C25: where the search text of a cut holds neither a sentence end nor a
\* paragraph break, the cut comes right after the last space that lies
\* after the start of the chunk and within the 100 characters before the
\* naive cut, and it is the naive cut only when there is no such space
C25_CutAfterNearestSpace ==
    work.kind = "chunk" =>
       \A k \in DOMAIN work.spans :
          LET position == work.spans[k][1]
              spaces == SpacesBefore(work.text, work.max_chars, position)
          IN  (/\ BoundarySought(k)
               /\ SentenceCandidates(work.text, work.max_chars, position) = {}
               /\ ParagraphCandidates(work.text, work.max_chars, position) = {}) =>
                 work.spans[k][2] =
                    IF spaces # {}
                    THEN SetMax(spaces) + 1
                    ELSE NaiveCut(work.text, work.max_chars, position)

\* C26: a cut whose search text holds a sentence end comes right after a
\* sentence end; one whose search text holds none but holds a paragraph
\* break comes right after a paragraph break; one whose search text holds
\* neither comes right after a space of the chunk or at the naive cut.  Of
\* "Sentence one. Sentence two. Sentence three." with max_chars 20 and
\* overlap 5 there are at least two chunks, each trimmed and ending with its
\* full stop, the second with the last 5 characters of the first as context
C26_BoundaryPrecedence ==
    work.kind = "chunk" =>
       /\ \A k \in DOMAIN work.spans :
             LET position == work.spans[k][1]
                 cut == work.spans[k][2]
                 naive == NaiveCut(work.text, work.max_chars, position)
                 sentences == SentenceCandidates(work.text, work.max_chars, position)
                 paragraphs == ParagraphCandidates(work.text, work.max_chars, position)
             IN  BoundarySought(k) =>
                    /\ sentences # {} => cut \in sentences
                    /\ (sentences = {} /\ paragraphs # {}) => cut \in paragraphs
                    /\ (sentences = {} /\ paragraphs = {}) =>
                          \/ cut = naive
                          \/ /\ position < cut - 1 /\ cut <= naive
                             /\ At(work.text, cut - 1) = " "
       /\ (work.text = SentenceExample /\ work.pc = "done") =>
             /\ Len(work.chunks) >= 2
             /\ \A k \in DOMAIN work.chunks :
                   /\ work.chunks[k].chunk = Strip(work.chunks[k].chunk)
                   /\ work.chunks[k].chunk # << >>
                   /\ work.chunks[k].chunk[Len(work.chunks[k].chunk)] = "."
             /\ work.chunks[2].context = Suffix(work.chunks[1].chunk, 5)
             /\ Len(work.chunks[2].context) = 5

\* the example has been cut into its three sentences
C26_Witness ==
    /\ work.kind = "chunk"
    /\ work.text = SentenceExample
    /\ work.pc = "done"
    /\ Len(work.chunks) = 3
    /\ work.spans = << <<0, 14>>, <<14, 28>>, <<28, 43>> >>
    /\ work.chunks[1].chunk = SubSeq(SentenceExample, 1, 13)

\* C29: on the path through the loop, with max_chars >= 1, no chunk spans
\* more than max_chars + 100 characters of the text, and no trimmed chunk is
\* longer than that
C29_SpanAtMostMaxCharsPlusLookAhead ==
    (work.kind = "chunk" /\ work.max_chars >= 1 /\ Len(work.text) > work.max_chars) =>
       \A k \in DOMAIN work.spans :
          /\ work.spans[k][2] - work.spans[k][1] <= work.max_chars + LookAhead
          /\ Len(work.chunks[k].chunk) <= work.max_chars + LookAhead

\* a chunk has been cut at a sentence end that lies 100 characters after its
\* naive cut
C29_Witness ==
    /\ work.kind = "chunk"
    /\ work.max_chars >= 1
    /\ Len(work.text) > work.max_chars
    /\ \E k \in DOMAIN work.spans :
          /\ work.spans[k][2] - work.spans[k][1] = work.max_chars + LookAhead
          /\ Len(work.chunks[k].chunk) > LookAhead

(***************************************************************************)
(* The requests of execute_translation                                     *)
(***************************************************************************)
\* C27: the request of a chunk of a translation stage uses the first prompt
\* pair exactly when the chunk is the first one or its context is empty,
\* and the continuation pair otherwise, with the last min(150, length of the
\* context) characters of the context as snippet; it carries the chunk and
\* temperature 0.3; the requests are made in the order of the chunks, each
\* after the chunk before it has been completed
C27_PromptPairByContext ==
    \A r \in Runs : \A e \in Positions(r, "enter") :
       LET op == log[r][e].op
           chunks == chunk_text(log[r][e].input, pipeline[op].chunk_size,
                                pipeline[op].overlap)
       IN  pipeline[op].operation_id = "translation" =>
              \A i \in ChatsOf(r, op) :
                 LET c == chunks[log[r][i].idx]
                     request == log[r][i].request
                     n == Min(SnippetLen, Len(c.context))
                 IN  /\ request.pair = IF c.is_first \/ c.context = << >>
                                       THEN "first" ELSE "continuation"
                     /\ request.pair = "continuation" =>
                           request.context_snippet =
                              Slice(c.context, Len(c.context) - n, Len(c.context))
                     /\ request.chunk = c.chunk
                     /\ request.temperature = "0.3"
                     /\ \A j \in ChatsOf(r, op) :
                           i < j <=> log[r][i].idx < log[r][j].idx
                     /\ log[r][i].idx > 1 =>
                           \E q \in PartsOf(r, op) :
                              q < i /\ log[r][q].idx = log[r][i].idx - 1

\* a translation has finished whose second chunk was requested with the
\* continuation pair and the last 150 characters of a longer context
C27_Witness ==
    \E r \in Runs :
       /\ Count(r, "finished") = 1
       /\ \E i \in Positions(r, "chat") :
             /\ log[r][i].idx = 2
             /\ log[r][i].request.pair = "continuation"
             /\ Len(log[r][i].request.context_snippet) = SnippetLen
             /\ Len(task[r].text) > 0
             /\ scenario.doc = WideDocument


\* ---------------------------------------------------------------------
\* The writers of is_running and output_base_path
\* ---------------------------------------------------------------------

\* the positions of a call inside execute_translation, execute_combined_operation
\* and the helpers they call (lines 246-328 and 413-473)
ExecutorPcs == {"translate", "combine", "chunk", "chat", "sleep", "stage_end"}

\* the positions of a call inside process_pipeline itself (lines 475-560)
PipelinePcs == {"idle", "probe", "read", "next_op", "final"}

\* a step of stop_processing: no call moves
StopStep == task' = task

C28_Step ==
    /\ \A r \in Runs :
          (task[r].pc \in ExecutorPcs /\ task'[r] # task[r]) =>
              /\ is_running' = is_running
              /\ output_base_path' = output_base_path
    /\ is_running' # is_running =>
          \/ StopStep /\ is_running' = FALSE
          \/ \E r \in Runs : task[r].pc \in PipelinePcs /\ task'[r] # task[r]
    /\ output_base_path' # output_base_path =>
          \E r \in Runs : task[r].pc = "idle" /\ task'[r].pc = "probe"

\* C28: no step of a stage executor or of a helper writes is_running or
\* output_base_path; is_running changes only in a step of process_pipeline
\* or of stop_processing, and output_base_path only in the step of
\* process_pipeline that admits a call.
C28_ExecutorsLeaveFlagAndPath == [][C28_Step]_vars

\* a call is past its first chunk inside a stage executor after
\* stop_processing cleared the flag that process_pipeline had set
C28_Witness ==
    \E r \in Runs :
        /\ task[r].pc \in ExecutorPcs
        /\ task[r].idx > 1
        /\ r \in stopped
        /\ ~is_running
        /\ output_base_path = OutputPath(r)

\* ---------------------------------------------------------------------
\* The final output and the numbered steps
\* ---------------------------------------------------------------------

\* the stages of a call that ran to their end before position i of its log
StagesBefore(r, i) == {l \in Positions(r, "leave") : l < i}

\* the stages whose numbered step was written
PersistedStages(r) ==
    {l \in Positions(r, "leave") :
        l < Len(log[r]) /\ log[r][l + 1].ev = "step_saved"}

\* the text a call had in hand at position i: the result of the last stage
\* that ran, or the input document when none did
TextAt(r, i) ==
    IF StagesBefore(r, i) = {} THEN scenario.doc
    ELSE log[r][SetMax(StagesBefore(r, i))].result

\* the log of every call: stage numbers count the stages that ran, each
\* stage end is followed by its save or by the report that the save
\* failed, and the final write carries the text in hand
C30_Log ==
    \A r \in Runs :
       /\ \A l \in Positions(r, "leave") :
             /\ log[r][l].number = Cardinality(StagesBefore(r, l)) + 1
             /\ SaveAt(r, l + 1)
       /\ \A l \in PersistedStages(r) :
             log[r][l + 1].file[2] = TwoDigits[log[r][l].number]
       /\ \A w \in Positions(r, "write") : log[r][w].content = TextAt(r, w)

\* a step that ends a stage and saves its numbered step leaves the result
\* of the stage in the step file; a step that writes the final output
\* leaves the text in hand in the output file
C30_Step ==
    /\ C30_Log'
    /\ \A r \in Runs :
          \A i \in (DOMAIN log'[r]) \ (DOMAIN log[r]) :
             /\ (log'[r][i].ev = "step_saved" /\ log'[r][i - 1].ev = "leave") =>
                   files'[log'[r][i].file] = log'[r][i - 1].result
             /\ log'[r][i].ev = "write" =>
                   files'[log'[r][i].file] = log'[r][i].content

\* C30: the text written to the final output file is the result of the last
\* stage that ran, or the input document when no stage ran; the k-th stage
\* that ran saves that result under the number k, and the step file holds
\* it unless the save fails.
C30_FinalIsLastStageResult == [][C30_Step]_vars

\* a call that was never stopped ran two stages, saved both numbered steps
\* and wrote the text of step 02 as its final output
C30_Witness ==
    \E r \in Runs :
        /\ r \notin stopped
        /\ Count(r, "finished") = 1
        /\ Cardinality(PersistedStages(r)) = 2
        /\ \E l \in PersistedStages(r) :
              /\ log[r][l].number = 2
              /\ log[r][l + 1].file \in DOMAIN files
              /\ <<task[r].output_path>> \in DOMAIN files
              /\ files[log[r][l + 1].file] = files[<<task[r].output_path>>]
              /\ files[<<task[r].output_path>>] # scenario.doc

\* C30 as stated: in every call that was not stopped and wrote its final
\* output, the last stage that ran has a persisted numbered step holding
\* the final text, and the persisted steps are numbered 01, 02, ... with
\* no gap.
C30_FinalEqualsLastPersistedStep ==
    \A r \in Runs :
       (r \notin stopped /\ Positions(r, "write") # {}) =>
          LET w == SetMax(Positions(r, "write"))
              ran == StagesBefore(r, w)
          IN  /\ ran = {} => log[r][w].content = scenario.doc
              /\ ran # {} =>
                    /\ SetMax(ran) \in PersistedStages(r)
                    /\ log[r][w].content = log[r][SetMax(ran)].result
              /\ {log[r][l].number : l \in PersistedStages(r)}
                    = 1..Cardinality(PersistedStages(r))
=============================================================================
